---------------------------- MODULE Spec2Model ----------------------------
(***************************************************************************)
(* Cryo storage core: pages, the B-Tree engine of storage/btree.rs, the    *)
(* pager of storage/pager.rs and the write-ahead log of storage/log.rs.    *)
(*                                                                         *)
(* Units.  storage/row.rs gives every leaf row the same serialized size    *)
(* (LEAF_ROW_SIZE) and every internal row the same size                    *)
(* (INTERNAL_ROW_SIZE), and storage/btree.rs counts `cells` in rows        *)
(* (split_child assigns `target.cells = left_cells`, delete compares       *)
(* `cells` with CELLS_PER_LEAF).  Sizes are therefore measured in cells:   *)
(* one row occupies one cell and the byte limit PAGE_SIZE of a page is     *)
(* expressed as the number of cells at which Page::cell_task reports Full. *)
(* Page ids are file offsets divided by PAGE_SIZE; page 0 is the header /  *)
(* metadata page.                                                          *)
(***************************************************************************)
EXTENDS Integers, Sequences, FiniteSets, TLC

(***************************************************************************)
(* Bounds of the model.                                                    *)
(***************************************************************************)
MaxKey == 6
MaxVal == 1
MaxPages == 9
MaxCrumbs == 2
MaxErrors == 1
\* rows an internal page takes before cell_task reports Full, scaled down
CELLS_PER_INTERNAL == 2

MaxLogKey == 3
MaxLog == 2
MaxCrashes == 2
MaxTorn == 1
MaxPopulate == 1
MaxHandlers == 2

Keys == 1..MaxKey
LogKeys == 1..MaxLogKey
PopulateVal == MaxVal
Vals == 1..MaxVal

(***************************************************************************)
(* Program constants.                                                      *)
(***************************************************************************)
\* (PAGE_SIZE - PAGE_HEADER_SIZE) / LEAF_ROW_SIZE = (4096 - 25) / 1156
CELLS_PER_LEAF == 3
LEAF_SPLITAT == (CELLS_PER_LEAF \div 2) + 1

\* CELLS_PER_INTERNAL of the build under study: the pointers an internal page
\* holds.  It is the bound CELLS_PER_INTERNAL, and one more where the
\* neighbours of a separator are looked at (SpecWide).
VARIABLE order

INTERNAL_SPLITAT == order \div 2
METADATA_PAGE_ID == 0
\* the kind byte of a page
PAGE_LEAF == 0
PAGE_INTERNAL == 1

\* Row::size(): one cell per row
RowSize(row) == 1

\* PAGE_SIZE in cells: cell_task fails with Full when
\* cells + row.size() >= PAGE_SIZE
PageLimit(kind) ==
    IF kind = "Leaf" THEN CELLS_PER_LEAF + 1 ELSE order + 1

(***************************************************************************)
(* Rows and pages.                                                         *)
(***************************************************************************)
LeafRow(id, val) == [id |-> id, val |-> val]
InternalRow(id, left, right) == [id |-> id, left |-> left, right |-> right]

NewPage(offset, kind, rows, cells, parent) ==
    [offset |-> offset, kind |-> kind, parent |-> parent,
     cells |-> cells, rows |-> rows]

\* what a read of bytes that hold no page yields
BadPage == [offset |-> 0, kind |-> "Bad", parent |-> 0, cells |-> 0, rows |-> <<>>]

InsertAt(seq, pos, x) ==
    SubSeq(seq, 1, pos) \o <<x>> \o SubSeq(seq, pos + 1, Len(seq))

RemoveAt(seq, pos) ==
    SubSeq(seq, 1, pos) \o SubSeq(seq, pos + 2, Len(seq))

\* a search that reports every absent id at the front of the slice
BinarySearchFront(rows, id) ==
    IF \E i \in 1..Len(rows) : rows[i].id = id
    THEN [found |-> TRUE, pos |-> (CHOOSE i \in 1..Len(rows) : rows[i].id = id) - 1]
    ELSE [found |-> FALSE, pos |-> 0]

\* slice::binary_search by Row::cmp (the id) on a sorted slice; pos is 0-based
BinarySearch(rows, id) ==
    IF \E i \in 1..Len(rows) : rows[i].id = id
    THEN [found |-> TRUE, pos |-> (CHOOSE i \in 1..Len(rows) : rows[i].id = id) - 1]
    ELSE [found |-> FALSE, pos |-> Cardinality({i \in 1..Len(rows) : rows[i].id < id})]

\* a cell_task that leaves the neighbours' links as they were
RelinkNone(rows, pos) == rows

\* "Update links" of Page::cell_task for internal pages
Relink(rows, pos) ==
    IF pos < Len(rows)
    THEN LET r1 == IF pos > 0
                   THEN [rows EXCEPT ![pos].right = rows[pos + 1].left]
                   ELSE rows
         IN  IF pos + 1 < Len(r1)
             THEN [r1 EXCEPT ![pos + 2].left = r1[pos + 1].right]
             ELSE r1
    ELSE rows

\* the capacity test that opens both branches of Page::cell_task
CellTaskFull(page, row) == page.cells + RowSize(row) >= PageLimit(page.kind)

CellTaskLinks(page, rows, pos) ==
    IF page.kind = "Internal" THEN Relink(rows, pos) ELSE rows

\* Page::insert
PageInsert(page, row) ==
    LET bs == BinarySearch(page.rows, row.id)
    IN  IF CellTaskFull(page, row) THEN [err |-> "Full", page |-> page]
        ELSE IF bs.found THEN [err |-> "Duplicate", page |-> page]
        ELSE [err |-> "Ok",
              page |-> [page EXCEPT
                  !.rows = CellTaskLinks(page, InsertAt(page.rows, bs.pos, row), bs.pos),
                  !.cells = page.cells + RowSize(row)]]

\* Page::delete
PageDelete(page, row) ==
    LET bs == BinarySearch(page.rows, row.id)
    IN  IF CellTaskFull(page, row) THEN [err |-> "Full", page |-> page]
        ELSE IF ~bs.found THEN [err |-> "Missing", page |-> page]
        ELSE [err |-> "Ok",
              page |-> [page EXCEPT
                  !.rows = CellTaskLinks(page, RemoveAt(page.rows, bs.pos), bs.pos),
                  !.cells = page.cells - RowSize(page.rows[bs.pos + 1])]]

\* Page::update
PageUpdate(page, row) ==
    LET bs == BinarySearch(page.rows, row.id)
    IN  IF CellTaskFull(page, row) THEN [err |-> "Full", page |-> page]
        ELSE IF ~bs.found THEN [err |-> "Missing", page |-> page]
        ELSE [err |-> "Ok",
              page |-> [page EXCEPT
                  !.rows = CellTaskLinks(page, [page.rows EXCEPT ![bs.pos + 1] = row], bs.pos),
                  !.cells = (page.cells + RowSize(row)) - RowSize(page.rows[bs.pos + 1])]]


(***************************************************************************)
(* B-Tree storage state: s = [pages, npages, root, crumbs, trunc, overrun].*)
(* pages maps a page id to the page last written there; npages is the      *)
(* number of page slots including page 0; crumbs is the breadcrumb stack   *)
(* (top at the end).  Only the MaxCrumbs topmost breadcrumbs are kept;     *)
(* trunc records that older ones were dropped and overrun that a pop       *)
(* reached past them.                                                      *)
(***************************************************************************)
St(pgs, n, r, c, t) ==
    [pages |-> pgs, npages |-> n, root |-> r, crumbs |-> c,
     trunc |-> t, overrun |-> FALSE]

\* BTreeStorage::read_from_disk / uncache
Rd(s, id) == IF id \in DOMAIN s.pages THEN s.pages[id] ELSE BadPage

\* BTreeStorage::write_to_disk
Wr(s, page) == [s EXCEPT !.pages = (page.offset :> page) @@ s.pages]

\* BTreeStorage::create
Create(s, kind, rows, cells, parent) ==
    [offset |-> s.npages,
     s |-> [Wr(s, NewPage(s.npages, kind, rows, cells, parent))
               EXCEPT !.npages = s.npages + 1]]

\* breadcrumbs.push
Push(s, crumb) ==
    LET c == Append(s.crumbs, crumb)
    IN  IF Len(c) > MaxCrumbs
        THEN [s EXCEPT !.crumbs = Tail(c), !.trunc = TRUE]
        ELSE [s EXCEPT !.crumbs = c]

\* breadcrumbs.pop
Pop(s) ==
    IF Len(s.crumbs) = 0
    THEN [some |-> FALSE, crumb |-> <<0, 0>>,
          s |-> [s EXCEPT !.overrun = s.overrun \/ s.trunc]]
    ELSE [some |-> TRUE, crumb |-> s.crumbs[Len(s.crumbs)],
          s |-> [s EXCEPT !.crumbs = SubSeq(s.crumbs, 1, Len(s.crumbs) - 1)]]

\* breadcrumbs.clear
ClearCrumbs(s) == [s EXCEPT !.crumbs = <<>>, !.trunc = FALSE]

Fail(s, e) == [s |-> s, err |-> e]
Done(s) == [s |-> s, err |-> "Ok"]

(***************************************************************************)
(* Locate: the descent loop of insert / update / delete with               *)
(* search_internal.  fuel bounds the number of levels visited.             *)
(***************************************************************************)
\* `let v = ...;` : the value is computed once and named in what follows
With(v, Op(_)) == Op(v)

\* a descent that always follows the left child of the first pointer
SearchInternalLeft(page, id) == [pos |-> 0, next |-> page.rows[1].left]

\* BTreeStorage::search_internal: the crumb pushed and the child chosen
SearchInternal(page, id) ==
    LET bs == BinarySearch(page.rows, id)
        p  == IF bs.found THEN bs.pos
              ELSE IF bs.pos = Len(page.rows) THEN bs.pos - 1 ELSE bs.pos
        ptr == page.rows[p + 1]
    IN  [pos |-> p,
         next |-> IF bs.found THEN ptr.right
                  ELSE IF ptr.id >= id THEN ptr.left ELSE ptr.right]

RECURSIVE Descend(_, _, _, _)
\* the loop `while page.kind == Internal` of insert, delete and update
Descend(s, cur, id, fuel) ==
    IF cur >= s.npages THEN [s |-> s, err |-> "OutOfBounds", cur |-> cur]
    ELSE With(Rd(s, cur), LAMBDA page :
         IF page.kind = "Bad" THEN [s |-> s, err |-> "Io", cur |-> cur]
         ELSE IF page.kind = "Leaf" THEN [s |-> s, err |-> "Ok", cur |-> cur]
         ELSE IF fuel = 0 THEN [s |-> s, err |-> "Loop", cur |-> cur]
         ELSE IF Len(page.rows) = 0 THEN [s |-> s, err |-> "Panic", cur |-> cur]
         ELSE With(SearchInternal(page, id), LAMBDA si :
              Descend(Push(s, <<cur, si.pos>>), si.next, id, fuel - 1)))

(***************************************************************************)
(* Insert with split.                                                      *)
(***************************************************************************)
RECURSIVE Reparent(_, _, _)
\* the loop `for child in child_pages` of split_child
Reparent(s, children, to) ==
    IF Len(children) = 0 THEN Done(s)
    ELSE With(Rd(s, Head(children)), LAMBDA page :
         IF page.kind = "Bad" THEN Fail(s, "Io")
         ELSE Reparent(Wr(s, [page EXCEPT !.parent = to]), Tail(children), to))

\* Row::offset of an internal row (ROW_OFFSET = ROW_LEFT_OFFSET)
RowOffset(row) == row.left

NoPointer(s, e) == [s |-> s, err |-> e, pointer |-> <<>>]

\* split_child, second half: the new row goes to the side its id belongs to
\* and the three pages are written
SplitChildInsert(s, parent, target1, right, pointer, row) ==
    IF row.id >= pointer.id
    THEN With(IF target1.kind = "Leaf" THEN Done(s)
              ELSE Reparent(s, <<row.left, row.right>>, right.offset), LAMBDA rp2 :
         IF rp2.err # "Ok" THEN NoPointer(rp2.s, rp2.err)
         ELSE With(PageInsert(right, row), LAMBDA ri :
              IF ri.err # "Ok" THEN NoPointer(rp2.s, ri.err)
              ELSE [s |-> Wr(Wr(Wr(rp2.s, parent), target1), ri.page),
                    err |-> "Ok", pointer |-> pointer]))
    ELSE With(PageInsert(target1, row), LAMBDA ti :
         IF ti.err # "Ok" THEN NoPointer(s, ti.err)
         ELSE [s |-> Wr(Wr(Wr(s, parent), ti.page), right),
               err |-> "Ok", pointer |-> pointer])

\* BTreeStorage::split_child
SplitChild(s, target, row) ==
    With(Rd(s, target.parent), LAMBDA parent :
    With(IF target.kind = "Leaf" THEN LEAF_SPLITAT ELSE INTERNAL_SPLITAT, LAMBDA splitat :
    IF parent.kind = "Bad" THEN NoPointer(s, "Io")
    ELSE IF splitat >= Len(target.rows) THEN NoPointer(s, "Panic")
    ELSE
    With(SubSeq(target.rows, 1, splitat), LAMBDA left_candidates :
    With(SubSeq(target.rows, splitat + 1, Len(target.rows)), LAMBDA right_candidates :
    With(Create(s, target.kind, right_candidates, Len(right_candidates), target.parent),
         LAMBDA c :
    With(IF target.kind = "Leaf" THEN Done(c.s)
         ELSE Reparent(c.s,
                  [i \in 1..Len(right_candidates) |-> RowOffset(right_candidates[i])],
                  c.offset), LAMBDA rp :
    IF rp.err # "Ok" THEN NoPointer(rp.s, rp.err)
    ELSE SplitChildInsert(rp.s, parent,
             [target EXCEPT !.rows = left_candidates, !.cells = Len(left_candidates)],
             Rd(rp.s, c.offset),
             InternalRow(right_candidates[1].id, target.offset, c.offset),
             row)))))))

RECURSIVE Split(_, _, _, _)
\* BTreeStorage::split
Split(s, target, row, fuel) ==
    IF fuel = 0 THEN Fail(s, "Loop")
    ELSE IF target.offset = s.root
    THEN With(Create(s, "Internal", <<>>, 0, s.root), LAMBDA c :
         With([Rd(c.s, c.offset) EXCEPT !.parent = c.offset], LAMBDA parent :
         With(SplitChild([c.s EXCEPT !.root = parent.offset],
                         [target EXCEPT !.parent = parent.offset], row), LAMBDA sc :
         IF sc.err # "Ok" THEN Fail(sc.s, sc.err)
         ELSE With(PageInsert(parent, sc.pointer), LAMBDA pi :
              IF pi.err # "Ok" THEN Fail(sc.s, pi.err)
              ELSE Done(Wr(sc.s, pi.page))))))
    ELSE With(SplitChild(s, target, row), LAMBDA sc :
         IF sc.err # "Ok" THEN Fail(sc.s, sc.err)
         ELSE With(Rd(sc.s, target.parent), LAMBDA parent :
              IF parent.kind = "Bad" THEN Fail(sc.s, "Io")
              ELSE With(PageInsert(parent, sc.pointer), LAMBDA pi :
                   IF pi.err = "Ok" THEN Done(Wr(sc.s, pi.page))
                   ELSE IF pi.err = "Full" THEN Split(sc.s, parent, sc.pointer, fuel - 1)
                   ELSE Fail(sc.s, pi.err))))

\* BTreeStorage::insert
TreeInsert(s, row) ==
    With(Descend(s, s.root, row.id, MaxPages), LAMBDA d :
    IF d.err # "Ok" THEN Fail(d.s, d.err)
    ELSE With(Rd(d.s, d.cur), LAMBDA page :
         With(PageInsert(page, row), LAMBDA pi :
         IF pi.err = "Ok" THEN Done(Wr(d.s, pi.page))
         ELSE IF pi.err = "Full" THEN Split(d.s, page, row, MaxPages)
         ELSE Fail(d.s, pi.err))))

(***************************************************************************)
(* Traversal.                                                              *)
(***************************************************************************)
RECURSIVE SelectTraverse(_, _, _)
RECURSIVE SelectPointers(_, _, _, _)
\* BTreeStorage::select_traverse; visited holds page ids
SelectTraverse(s, cur, visited) ==
    IF cur >= s.npages THEN [out |-> <<>>, visited |-> visited, err |-> "OutOfBounds"]
    ELSE With(Rd(s, cur), LAMBDA page :
         IF page.kind = "Bad" THEN [out |-> <<>>, visited |-> visited, err |-> "Io"]
         ELSE IF page.offset \in visited
              THEN [out |-> <<>>, visited |-> visited, err |-> "Ok"]
         ELSE IF page.kind = "Leaf"
              THEN [out |-> page.rows, visited |-> visited \cup {page.offset}, err |-> "Ok"]
         ELSE SelectPointers(s, page.rows, visited \cup {page.offset}, <<>>))

\* the loop `for pointer in pointers` of select_traverse
SelectPointers(s, pointers, visited, out) ==
    IF Len(pointers) = 0 THEN [out |-> out, visited |-> visited, err |-> "Ok"]
    ELSE With(SelectTraverse(s, Head(pointers).left, visited), LAMBDA l :
         IF l.err # "Ok" THEN [out |-> out, visited |-> l.visited, err |-> l.err]
         ELSE With(SelectTraverse(s, Head(pointers).right, l.visited), LAMBDA r :
              IF r.err # "Ok" THEN [out |-> out, visited |-> r.visited, err |-> r.err]
              ELSE SelectPointers(s, Tail(pointers), r.visited, out \o l.out \o r.out)))

\* BTreeStorage::select
TreeSelect(s) == SelectTraverse(s, s.root, {})

(***************************************************************************)
(* Delete with merge, update.                                              *)
(***************************************************************************)
RECURSIVE MoveRows(_, _, _)
\* the loop `while let Some(row) = rows.pop()` of merge
MoveRows(successor, ancestor, rows) ==
    IF Len(rows) = 0
    THEN [err |-> "Ok", successor |-> successor, ancestor |-> ancestor]
    ELSE With(PageInsert(successor, rows[Len(rows)]), LAMBDA si :
         IF si.err # "Ok"
         THEN [err |-> si.err, successor |-> successor, ancestor |-> ancestor]
         ELSE With(PageDelete(ancestor, rows[Len(rows)]), LAMBDA ad :
              IF ad.err # "Ok"
              THEN [err |-> ad.err, successor |-> si.page, ancestor |-> ancestor]
              ELSE MoveRows(si.page, ad.page, SubSeq(rows, 1, Len(rows) - 1))))

\* the largest row id of a page plus one (the key merge gives the pointer it re-inserts)
MaxKeyPlusOne(rows) ==
    (CHOOSE m \in {rows[i].id : i \in 1..Len(rows)} :
        \A i \in 1..Len(rows) : rows[i].id <= m) + 1

\* a merge that leaves the parent as it was
MergeParentKeep(parent, pointers, pointer_pos, successor) ==
    [err |-> "Ok", page |-> parent]

\* merge: the separator removal and the two neighbour updates in the parent
MergeParent(parent, pointers, pointer_pos, successor) ==
    With(PageDelete(parent, pointers[pointer_pos + 1]), LAMBDA pd :
    With(IF pd.err = "Ok" /\ pointer_pos > 0
         THEN PageUpdate(pd.page,
                  InternalRow(pointers[pointer_pos].id,
                              pointers[pointer_pos].left, successor.offset))
         ELSE pd, LAMBDA lu :
    IF lu.err = "Ok" /\ pointer_pos + 1 < Len(pointers)
    THEN PageUpdate(lu.page,
             InternalRow(pointers[pointer_pos + 2].id,
                         successor.offset, pointers[pointer_pos + 2].right))
    ELSE lu))

\* the sibling a breadcrumb names: the other child of pointer `key` of `page`
OtherChild(page, key, offset) ==
    IF page.rows[key + 1].left = offset
    THEN page.rows[key + 1].right ELSE page.rows[key + 1].left

RECURSIVE Merge(_, _, _, _, _)
RECURSIVE MergeEmptied(_, _, _, _, _)
RECURSIVE MergeWritten(_, _)

\* BTreeStorage::merge
Merge(s, target, other, pointer_pos, fuel) ==
    With(Rd(s, target.parent), LAMBDA parent :
    IF fuel = 0 THEN Fail(s, "Loop")
    ELSE IF parent.kind = "Bad" THEN Fail(s, "Io")
    ELSE IF pointer_pos >= Len(parent.rows) THEN Fail(s, "Panic")
    ELSE IF parent.kind # "Internal" THEN Fail(s, "Kind")
    ELSE
    With(parent.rows[pointer_pos + 1].left = target.offset, LAMBDA targetLeft :
    With(MoveRows(IF targetLeft THEN target ELSE other,
                  IF targetLeft THEN other ELSE target,
                  (IF targetLeft THEN other ELSE target).rows), LAMBDA mv :
    IF mv.err # "Ok" THEN Fail(s, mv.err)
    ELSE
    With(MergeParent(parent, parent.rows, pointer_pos, mv.successor), LAMBDA mp :
    IF mp.err # "Ok" THEN Fail(s, mp.err)
    ELSE IF Len(mp.page.rows) = 0 /\ parent.offset # s.root /\ Len(s.crumbs) > 0
    THEN MergeEmptied(Pop(s), mp.page, mv.successor, mv.ancestor, fuel)
    ELSE With(Len(mp.page.rows) = 0 /\ parent.offset = s.root, LAMBDA collapse :
         With(IF Len(mp.page.rows) = 0 /\ parent.offset # s.root THEN Pop(s).s ELSE s,
              LAMBDA s0 :
         With(IF collapse
              THEN ClearCrumbs([s0 EXCEPT !.root = mv.successor.offset])
              ELSE s0, LAMBDA s1 :
         MergeWritten(
             Pop(Wr(Wr(Wr(s1, mp.page),
                       IF collapse
                       THEN [mv.successor EXCEPT !.parent = mv.successor.offset]
                       ELSE mv.successor),
                    mv.ancestor)),
             fuel))))))))

\* merge, `else if let Some((parent_offset, key)) = self.breadcrumbs.pop()`:
\* the emptied parent gets one pointer back and is merged into its own parent
MergeEmptied(pop, emptied, successor, ancestor, fuel) ==
    IF Len(successor.rows) = 0 THEN Fail(pop.s, "Unknown")
    ELSE
    With(PageInsert(emptied,
             InternalRow(MaxKeyPlusOne(successor.rows),
                         successor.offset, ancestor.offset)), LAMBDA pi :
    IF pi.err # "Ok" THEN Fail(pop.s, pi.err)
    ELSE
    With(Wr(Wr(pop.s, successor), ancestor), LAMBDA s2 :
    IF pop.crumb[1] >= s2.npages THEN Fail(s2, "OutOfBounds")
    ELSE
    With(Rd(s2, pop.crumb[1]), LAMBDA gp :
    IF gp.kind = "Bad" THEN Fail(s2, "Io")
    ELSE IF pop.crumb[2] >= Len(gp.rows) THEN Fail(s2, "Panic")
    ELSE IF gp.kind # "Internal" THEN Fail(s2, "Kind")
    ELSE
    With(Rd(s2, OtherChild(gp, pop.crumb[2], pi.page.offset)), LAMBDA otherPage :
    IF otherPage.kind = "Bad" THEN Fail(s2, "Io")
    ELSE Merge(s2, pi.page, otherPage, pop.crumb[2], fuel - 1)))))

\* merge, after the three pages are written: `if let Some((parent_offset, key))
\* = self.breadcrumbs.pop()` checks whether the parent needs a merge
MergeWritten(pop2, fuel) ==
    IF ~pop2.some THEN Done(pop2.s)
    ELSE
    With(Rd(pop2.s, pop2.crumb[1]), LAMBDA up :
    IF up.kind = "Bad" THEN Fail(pop2.s, "Io")
    ELSE IF up.offset = pop2.s.root THEN Done(pop2.s)
    ELSE IF pop2.crumb[2] >= Len(up.rows) THEN Fail(pop2.s, "Panic")
    ELSE IF up.kind # "Internal" THEN Fail(pop2.s, "Kind")
    ELSE
    With(OtherChild(up, pop2.crumb[2], up.offset), LAMBDA oid :
    IF oid >= pop2.s.npages THEN Fail(pop2.s, "OutOfBounds")
    ELSE
    With(Rd(pop2.s, oid), LAMBDA otherPage :
    IF otherPage.kind = "Bad" THEN Fail(pop2.s, "Io")
    ELSE IF up.cells + otherPage.cells < order
         THEN Merge(pop2.s, up, otherPage, pop2.crumb[2], fuel - 1)
    ELSE Done(pop2.s))))

\* BTreeStorage::delete
TreeDelete(s, row) ==
    With(Descend(s, s.root, row.id, MaxPages), LAMBDA d :
    IF d.err # "Ok" THEN Fail(d.s, d.err)
    ELSE
    With(Rd(d.s, d.cur), LAMBDA page :
    With(PageDelete(page, row), LAMBDA pd :
    IF pd.err # "Ok" THEN Fail(d.s, pd.err)
    ELSE IF d.s.root = page.offset THEN Done(Wr(d.s, pd.page))
    ELSE
    With(Pop(d.s), LAMBDA pop :
    IF ~pop.some THEN Fail(pop.s, "Unknown")
    ELSE IF pop.crumb[1] >= pop.s.npages THEN Fail(pop.s, "OutOfBounds")
    ELSE
    With(Rd(pop.s, pop.crumb[1]), LAMBDA parent :
    IF parent.kind = "Bad" THEN Fail(pop.s, "Io")
    ELSE IF pop.crumb[2] >= Len(parent.rows) THEN Fail(pop.s, "Panic")
    ELSE IF parent.kind # "Internal" THEN Fail(pop.s, "Kind")
    ELSE
    With(IF parent.rows[pop.crumb[2] + 1].right = page.offset
         THEN parent.rows[pop.crumb[2] + 1].left
         ELSE parent.rows[pop.crumb[2] + 1].right, LAMBDA sid :
    IF sid >= pop.s.npages THEN Fail(pop.s, "OutOfBounds")
    ELSE
    With(Rd(pop.s, sid), LAMBDA sibling :
    IF sibling.kind = "Bad" THEN Fail(pop.s, "Io")
    ELSE IF pd.page.cells + sibling.cells < CELLS_PER_LEAF
         THEN Merge(pop.s, pd.page, sibling, pop.crumb[2], MaxPages)
    ELSE Done(Wr(pop.s, pd.page)))))))))

\* BTreeStorage::update
TreeUpdate(s, row) ==
    With(Descend(s, s.root, row.id, MaxPages), LAMBDA d :
    IF d.err # "Ok" THEN Fail(d.s, d.err)
    ELSE With(PageUpdate(Rd(d.s, d.cur), row), LAMBDA pu :
         [s |-> Wr(d.s, pu.page), err |-> pu.err]))

(***************************************************************************)
(* Write-ahead log encoding.  A LogEntry is written as the words           *)
(* <<variant, length, payload...>> (bincode, fixed-int, big-endian: the    *)
(* enum variant, the length of the Vec<u8>, the row bytes); the row bytes  *)
(* are the words <<id, value>>.  GlobalCheckpoint has no payload.          *)
(***************************************************************************)
LogVariant(kind) ==
    CASE kind = "insert" -> 0
      [] kind = "delete" -> 1
      [] kind = "update" -> 2
      [] OTHER -> 3

LogKind(variant) ==
    CASE variant = 0 -> "insert"
      [] variant = 1 -> "delete"
      [] variant = 2 -> "update"
      [] OTHER -> "checkpoint"

\* Row::as_bytes
RowBytes(row) == <<row.id, row.val>>

\* TryFrom<&[u8]> for Row; indexing a slice that is too short panics
RowFromBytes(bytes) ==
    IF Len(bytes) < 2 THEN [err |-> "Panic", row |-> LeafRow(0, 0)]
    ELSE [err |-> "Ok", row |-> LeafRow(bytes[1], bytes[2])]

\* encode_into_std_write of a LogEntry
EncodeEntry(kind, row) ==
    IF kind = "checkpoint" THEN <<LogVariant(kind)>>
    ELSE <<LogVariant(kind), Len(RowBytes(row))>> \o RowBytes(row)

\* decode_from_reader at word offset pos (0-based)
DecodeEntry(bytes, pos) ==
    LET n == Len(bytes)
        bad == [err |-> "Deserialize", kind |-> "", payload |-> <<>>, next |-> pos]
    IN  IF pos + 1 > n THEN bad
        ELSE IF bytes[pos + 1] \notin 0..3 THEN bad
        ELSE IF bytes[pos + 1] = 3
             THEN [err |-> "Ok", kind |-> "checkpoint", payload |-> <<>>, next |-> pos + 1]
        ELSE IF pos + 2 > n THEN bad
        ELSE IF pos + 2 + bytes[pos + 2] > n THEN bad
        ELSE [err |-> "Ok", kind |-> LogKind(bytes[pos + 1]),
              payload |-> SubSeq(bytes, pos + 3, pos + 2 + bytes[pos + 2]),
              next |-> pos + 2 + bytes[pos + 2]]

\* the match on the entry kind in Logger::log and in the replay loop
TreeApply(s, kind, row) ==
    CASE kind = "insert" -> TreeInsert(s, row)
      [] kind = "delete" -> TreeDelete(s, row)
      [] OTHER -> TreeUpdate(s, row)

RECURSIVE Replay(_, _, _, _)
\* the loop of Logger::open: one BTree applies every decoded entry
Replay(s, bytes, pos, entries) ==
    With(DecodeEntry(bytes, pos), LAMBDA d :
    IF d.err # "Ok" THEN [s |-> s, err |-> "Ok", entries |-> entries]
    ELSE IF d.kind = "checkpoint" THEN Replay(s, bytes, d.next, entries)
    ELSE
    With(RowFromBytes(d.payload), LAMBDA rb :
    IF rb.err # "Ok" THEN [s |-> s, err |-> rb.err, entries |-> entries]
    ELSE
    With(TreeApply(s, d.kind, rb.row), LAMBDA r :
    IF r.err # "Ok"
    THEN [s |-> r.s, err |-> r.err, entries |-> Append(entries, <<pos, rb.row.id>>)]
    ELSE Replay(r.s, bytes, d.next, Append(entries, <<pos, rb.row.id>>)))))

RECURSIVE ListEntries(_, _)
\* Logger::list_entries
ListEntries(entries, bytes) ==
    IF Len(entries) = 0 THEN <<>>
    ELSE LET d == DecodeEntry(bytes, Head(entries)[1])
         IN  <<[err |-> d.err, kind |-> d.kind, payload |-> d.payload]>>
                 \o ListEntries(Tail(entries), bytes)

(***************************************************************************)
(* State.                                                                  *)
(***************************************************************************)
VARIABLES
    pages,        \* page id -> page held in memory (BTreeStorage file and cache; Pager cache over the file)
    npages,       \* page slots in use, page 0 included
    root,         \* BTreeStorage.root / PagerMetadata.root
    breadcrumbs,  \* BTreeStorage.breadcrumbs
    trunc,        \* older breadcrumbs were dropped from the model
    file,         \* the database file of the Pager
    commit,       \* Pager.commit
    wal,          \* the words of the log file
    entries,      \* Logger.entries
    proc,         \* the server process: "up", "compact", "down", "failed"
    stored,       \* ghost: id -> value of the rows put and not removed by successful calls
    last,         \* ghost: the last call and its outcome
    hist,         \* ghost: what has happened so far (failed calls, kills, torn writes)
    logged,       \* ghost: the entries Logger::log accepted since the last checkpoint
    snap,         \* ghost: select() and the kind of crash when the process last went down
    ref,          \* ghost: the same mutations applied in memory, never checkpointed or reopened
    cache,        \* Pager.cache: page id -> the words of the cached page
    metadata,     \* Pager.metadata: free_pages, pages, root
    disk,         \* the words of the file behind Pager.reader / Pager.writer, page by page
    pg,           \* ghost: what the calls on the Pager have done so far
    pc,           \* connection handler -> where it is in the loop of handle_connection
    req,          \* connection handler -> the request it read last
    holder,       \* the handler that holds the MutexGuard of the logger, 0 for none
    locks,        \* ghost: the mutations in the order their handlers locked the logger
    main,         \* where the main thread is: in StorageServer::listen or past it
    jobs          \* the jobs sent by ThreadPool::execute that no worker has received

treeVars == <<pages, npages, root, breadcrumbs, trunc>>
logVars == <<file, commit, wal, entries, proc>>
ghostVars == <<stored, last, hist, logged, snap, ref>>
pagerVars == <<cache, metadata, disk, pg, order>>
connVars == <<pc, req, holder, locks, main, jobs>>
extVars == <<pagerVars, connVars>>
vars == <<pages, npages, root, breadcrumbs, trunc, file, commit, wal, entries, proc,
          stored, last, hist, logged, snap, ref, cache, metadata, disk, pg,
          pc, req, holder, locks, main, jobs, order>>

Storage == St(pages, npages, root, breadcrumbs, trunc)

FreshPages == (1 :> NewPage(1, "Leaf", <<>>, 0, 0))
EmptyFile == [exists |-> FALSE, root |-> 0, npages |-> 0, pages |-> << >>]
NoHist == [onlyInserts |-> TRUE, errors |-> 0, crashes |-> 0, torn |-> 0, midflush |-> FALSE,
           populates |-> 0]
NoSnap == [rows |-> <<>>, err |-> "Ok", kind |-> "none"]
FreshRef == [pages |-> FreshPages, npages |-> 2, root |-> 1, err |-> "Ok"]

NoPager == [written |-> << >>, dirty |-> << >>, synced |-> << >>, opened |-> [root |-> 0, pages |-> 0],
            flushed |-> FALSE, discarded |-> FALSE, plain |-> TRUE, calls |-> 0]

\* the workers of the ThreadPool that run handle_connection
Handlers == 1..MaxHandlers
NoRequest == [kind |-> "none", id |-> 0, val |-> 0]

\* the Pager studied on its own is not part of this run; the connection
\* handlers wait for their first request
Idle(cells) ==
    /\ order = cells
    /\ cache = << >>
    /\ metadata = [free_pages |-> <<>>, pages |-> 0, root |-> 0]
    /\ disk = <<>>
    /\ pg = NoPager
    /\ pc = [h \in Handlers |-> "read"]
    /\ req = [h \in Handlers |-> NoRequest]
    /\ holder = 0
    /\ locks = <<>>
    /\ main = "listen"
    /\ jobs = 0

ExtIdle == Idle(CELLS_PER_INTERNAL)

Running == last.err \notin {"Panic", "Loop", "Overrun"} /\ hist.errors < MaxErrors

Outcome(r) == IF r.s.overrun THEN "Overrun" ELSE r.err

Put(f, k, v) == (k :> v) @@ f
Drop(f, k) == [x \in DOMAIN f \ {k} |-> f[x]]

Ids(rows) == [i \in 1..Len(rows) |-> rows[i].id]
Sorted(seq) == \A i \in 1..(Len(seq) - 1) : seq[i] < seq[i + 1]
Range(seq) == {seq[i] : i \in 1..Len(seq)}

NextStored(kind, id, val) ==
    CASE kind = "delete" -> Drop(stored, id)
      [] OTHER -> Put(stored, id, val)

NextHist(kind, id, err) ==
    [hist EXCEPT
        !.onlyInserts = @ /\ kind = "insert" /\ id \notin DOMAIN stored,
        !.errors = @ + (IF err = "Ok" THEN 0 ELSE 1)]

(***************************************************************************)
(* The B-Tree storage used directly (BTreeStorage::insert/delete/update).  *)
(***************************************************************************)
\* BTreeStorage::new on an empty directory
TreeStart ==
    /\ pages = FreshPages
    /\ npages = 2
    /\ root = 1
    /\ breadcrumbs = <<>>
    /\ trunc = FALSE
    /\ file = EmptyFile
    /\ commit = TRUE
    /\ wal = <<>>
    /\ entries = <<>>
    /\ proc = "up"
    /\ stored = << >>
    /\ last = [op |-> "new", id |-> 0, err |-> "Ok"]
    /\ hist = NoHist
    /\ logged = <<>>
    /\ snap = NoSnap
    /\ ref = FreshRef

TreeInit == TreeStart /\ ExtIdle

TreeCall(kind, id, val) ==
    /\ Running
    /\ \E r \in {TreeApply(Storage, kind, LeafRow(id, val))} :
        /\ r.s.npages <= MaxPages
        /\ pages' = r.s.pages
        /\ npages' = r.s.npages
        /\ root' = r.s.root
        /\ breadcrumbs' = r.s.crumbs
        /\ trunc' = r.s.trunc
        /\ stored' = IF r.err = "Ok" THEN NextStored(kind, id, val) ELSE stored
        /\ last' = [op |-> kind, id |-> id, err |-> Outcome(r)]
        /\ hist' = NextHist(kind, id, Outcome(r))
    /\ UNCHANGED <<logVars, logged, snap, ref>>
    /\ UNCHANGED extVars

Insert(id, val) == TreeCall("insert", id, val)

Delete(id) == TreeCall("delete", id, 0)

Update(id, val) == TreeCall("update", id, val)

TreeNext ==
    \/ \E id \in Keys, val \in Vals : Insert(id, val)
    \/ \E id \in Keys : Delete(id)
    \/ \E id \in Keys, val \in Vals : Update(id, val)

SpecTree == TreeInit /\ [][TreeNext]_vars

\* internal pages of one pointer more: a separator can have a neighbour in a
\* page that is not full
WideCells == 3

WideInit == TreeStart /\ Idle(WideCells)

SpecWide == WideInit /\ [][TreeNext]_vars

(***************************************************************************)
(* The logger over the pager (Logger::open, Logger::log, compact), with    *)
(* the process being killed and restarted.  While the process is down the  *)
(* memory variables hold nothing; `file` and `wal` are what is on disk.    *)
(* The log stays shorter than the 8 KiB buffer of the BufReader, so the    *)
(* file position handed to the writer after the replay is the end of file. *)
(***************************************************************************)
NoPages == << >>

\* Pager::open: read_metadata of a file that has bytes, write_metadata of an empty one
OpenPager(f) ==
    IF f.exists
    THEN St(f.pages, f.npages, f.root, <<>>, FALSE)
    ELSE St(FreshPages, 2, 1, <<>>, FALSE)

\* BTree::new(&mut pager): a tree over the pager's pages, with no breadcrumbs
NewTree == St(pages, npages, root, <<>>, FALSE)

\* the cache entries whose bytes differ from the file; page 0 is the metadata
DirtyPages ==
    {id \in DOMAIN pages : id \notin DOMAIN file.pages \/ file.pages[id] # pages[id]}
        \cup (IF ~file.exists \/ file.root # root \/ file.npages # npages
              THEN {METADATA_PAGE_ID} ELSE {})

\* Pager::write_bytes of one cache entry
WriteBytes(f, id) ==
    IF id = METADATA_PAGE_ID
    THEN [f EXCEPT !.exists = TRUE, !.root = root, !.npages = npages]
    ELSE [f EXCEPT !.exists = TRUE, !.pages = Put(f.pages, id, pages[id])]

\* a compact that leaves the log file as it was
KeepLog(bytes) == bytes

\* File::set_len(0) and seek(0) on the log
TruncateLog(bytes) == <<>>

\* the words of a log entry that reached the file when the process died in the write
TornPrefixes(bytes) == {SubSeq(bytes, 1, k) : k \in 1..(Len(bytes) - 1)}

RECURSIVE Decoded(_, _)
\* the entries the loop of Logger::open decodes from the log, in order
Decoded(bytes, pos) ==
    LET d == DecodeEntry(bytes, pos)
    IN  IF d.err # "Ok" THEN <<>>
        ELSE IF d.kind = "checkpoint" THEN Decoded(bytes, d.next)
        ELSE <<[err |-> "Ok", kind |-> d.kind, payload |-> d.payload]>>
                 \o Decoded(bytes, d.next)

RECURSIVE DecodedEnd(_, _)
\* the offset at which the loop of Logger::open stops
DecodedEnd(bytes, pos) ==
    LET d == DecodeEntry(bytes, pos)
    IN  IF d.err # "Ok" THEN pos ELSE DecodedEnd(bytes, d.next)

Listed(kind, row) == [err |-> "Ok", kind |-> kind, payload |-> RowBytes(row)]

\* StorageServer::new on an empty directory
LogInit ==
    /\ pages = FreshPages
    /\ npages = 2
    /\ root = 1
    /\ breadcrumbs = <<>>
    /\ trunc = FALSE
    /\ file = EmptyFile
    /\ commit = FALSE
    /\ wal = <<>>
    /\ entries = <<>>
    /\ proc = "up"
    /\ stored = << >>
    /\ last = [op |-> "new", id |-> 0, err |-> "Ok"]
    /\ hist = NoHist
    /\ logged = [entries |-> <<>>, torn |-> FALSE]
    /\ snap = NoSnap
    /\ ref = FreshRef
    /\ ExtIdle

\* the same call made on the reference tree
RefApply(kind, row) ==
    IF ref.err # "Ok" THEN ref
    ELSE With(TreeApply(St(ref.pages, ref.npages, ref.root, <<>>, FALSE), kind, row),
              LAMBDA r :
         [pages |-> r.s.pages, npages |-> r.s.npages, root |-> r.s.root,
          err |-> IF r.err = "Panic" THEN "Panic" ELSE "Ok"])

Memory(s) ==
    /\ pages' = s.pages
    /\ npages' = s.npages
    /\ root' = s.root
    /\ breadcrumbs' = <<>>
    /\ trunc' = FALSE

MemoryLost ==
    /\ pages' = NoPages
    /\ npages' = 0
    /\ root' = 0
    /\ breadcrumbs' = <<>>
    /\ trunc' = FALSE
    /\ entries' = <<>>

CanLog ==
    /\ proc = "up"
    /\ hist.errors < MaxErrors
    /\ Len(logged.entries) < MaxLog

\* a write at the start of the file, over what is there
WriteEntryAtStart(bytes, entry) ==
    entry \o SubSeq(bytes, Len(entry) + 1, Len(bytes))

\* Logger::log, the write of the entry: `encode_into_std_write` at the
\* position of the writer, which is the end of the file, and `flush`
WriteEntry(bytes, entry) == bytes \o entry

\* Logger::log of Insert, Update or Delete (the Query handlers of handle_connection)
Log(kind, id, val) ==
    /\ CanLog
    /\ \E r \in {TreeApply(NewTree, kind, LeafRow(id, val))} :
        /\ r.s.npages <= MaxPages
        /\ last' = [op |-> kind, id |-> id, err |-> r.err]
        /\ hist' = [NextHist(kind, id, r.err) EXCEPT
                        !.crashes = @ + (IF r.err = "Panic" THEN 1 ELSE 0)]
        /\ IF r.err = "Panic"
           THEN /\ MemoryLost
                /\ proc' = "down"
                /\ snap' = [rows |-> <<>>, err |-> "Ok", kind |-> "panic"]
                /\ UNCHANGED <<file, commit, wal, stored, logged>>
           ELSE /\ Memory(r.s)
                /\ snap' = NoSnap
                /\ IF r.err = "Ok"
                   THEN /\ wal' = WriteEntry(wal, EncodeEntry(kind, LeafRow(id, val)))
                        /\ entries' = Append(entries, <<Len(wal), id>>)
                        /\ stored' = NextStored(kind, id, val)
                        /\ logged' = [logged EXCEPT
                               !.entries = Append(@, Listed(kind, LeafRow(id, val)))]
                   ELSE UNCHANGED <<wal, entries, stored, logged>>
                /\ UNCHANGED <<file, commit, proc>>
    /\ ref' = RefApply(kind, LeafRow(id, val))
    /\ UNCHANGED pagerVars

LogInsert(id, val) == Log("insert", id, val) /\ UNCHANGED connVars

LogDelete(id) == Log("delete", id, 0) /\ UNCHANGED connVars

LogUpdate(id, val) == Log("update", id, val) /\ UNCHANGED connVars

\* Logger::log whose process is killed while the entry is being written
TornLog(kind, id, val) ==
        /\ CanLog
        /\ hist.crashes < MaxCrashes
        /\ hist.torn < MaxTorn
        /\ TreeApply(NewTree, kind, LeafRow(id, val)).err = "Ok"
        /\ \E part \in TornPrefixes(EncodeEntry(kind, LeafRow(id, val))) :
               wal' = wal \o part
        /\ MemoryLost
        /\ proc' = "down"
        /\ \E sel \in {TreeSelect(NewTree)} :
               snap' = [rows |-> sel.out, err |-> sel.err, kind |-> "append"]
        /\ last' = [op |-> "kill", id |-> id, err |-> "Ok"]
        /\ logged' = [logged EXCEPT !.torn = TRUE]
        /\ hist' = [hist EXCEPT !.crashes = @ + 1, !.torn = @ + 1]
        /\ UNCHANGED <<file, commit, stored, ref>>
        /\ UNCHANGED extVars

\* compact: pager.commit(true), then Pager::flush begins
CompactBegin ==
    /\ proc = "up"
    /\ proc' = "compact"
    /\ commit' = TRUE
    /\ last' = [op |-> "flush", id |-> 0, err |-> "Ok"]
    /\ snap' = NoSnap
    /\ UNCHANGED <<treeVars, file, wal, entries, stored, hist, logged, ref>>
    /\ UNCHANGED extVars

\* Pager::flush: the next cache entry, in page id order, is written to the file
FlushPage ==
    /\ proc = "compact"
    /\ commit
    /\ DirtyPages # {}
    /\ LET id == CHOOSE x \in DirtyPages : \A y \in DirtyPages : x <= y
       IN  file' = WriteBytes(file, id)
    /\ UNCHANGED <<treeVars, commit, wal, entries, proc, ghostVars>>
    /\ UNCHANGED extVars

\* compact after the flush: commit(false), entries.clear(), the log is emptied
CompactEnd ==
    /\ proc = "compact"
    /\ DirtyPages = {}
    /\ commit' = FALSE
    /\ entries' = <<>>
    /\ wal' = TruncateLog(wal)
    /\ proc' = "up"
    /\ last' = [op |-> "checkpoint", id |-> 0, err |-> "Ok"]
    /\ logged' = [entries |-> <<>>, torn |-> FALSE]
    /\ UNCHANGED <<treeVars, file, stored, hist, snap, ref>>
    /\ UNCHANGED extVars

\* the process is killed (or the Logger is dropped: it has no Drop, and the
\* Pager's Drop does not flush while commit is false)
Crash ==
        /\ proc \in {"up", "compact"}
        /\ hist.crashes < MaxCrashes
        /\ MemoryLost
        /\ proc' = "down"
        /\ commit' = FALSE
        /\ \E sel \in {TreeSelect(NewTree)} :
               snap' = [rows |-> sel.out, err |-> sel.err,
                        kind |-> IF proc = "up" THEN "between" ELSE "compact"]
        /\ last' = [op |-> "kill", id |-> 0, err |-> "Ok"]
        /\ hist' = [hist EXCEPT !.crashes = @ + 1, !.midflush = @ \/ proc = "compact"]
        /\ UNCHANGED <<file, wal, stored, logged, ref>>
        /\ UNCHANGED extVars

\* StorageServer::new: Pager::open, then Logger::open replays the log
Open ==
    /\ proc = "down"
    /\ \E r \in {Replay(OpenPager(file), wal, 0, <<>>)} :
        /\ r.s.npages <= MaxPages
        /\ commit' = FALSE
        /\ last' = [op |-> "open", id |-> 0, err |-> r.err]
        /\ IF r.err = "Ok"
           THEN /\ Memory(r.s)
                /\ entries' = r.entries
                /\ proc' = "up"
           ELSE /\ MemoryLost
                /\ proc' = "failed"
    /\ UNCHANGED <<file, wal, stored, hist, logged, snap, ref>>
    /\ UNCHANGED extVars

LogNext ==
    \/ \E id \in LogKeys, val \in Vals : LogInsert(id, val)
    \/ \E id \in LogKeys : LogDelete(id)
    \/ \E id \in LogKeys, val \in Vals : LogUpdate(id, val)
    \/ \E id \in LogKeys, val \in Vals : TornLog("insert", id, val)
    \/ CompactBegin
    \/ FlushPage
    \/ CompactEnd
    \/ Crash
    \/ Open

SpecLog == LogInit /\ [][LogNext]_vars

(***************************************************************************)
(* The server: the Query handlers go through Logger::log, the Populate     *)
(* handler runs the inserts on a BTree over the logger's pager.            *)
(***************************************************************************)
RECURSIVE PopulateRows(_, _, _)
\* Command::Populate: `for i in 1..=records`, stopping at the first error
PopulateRows(s, i, records) ==
    IF i > records THEN Done(s)
    ELSE With(TreeInsert(s, LeafRow(i, PopulateVal)), LAMBDA r :
         IF r.err # "Ok" THEN r
         ELSE PopulateRows(r.s, i + 1, records))

\* Command::Populate run on a BTree over the logger's pager
PopulateCall(size) ==
    /\ CanLog
    /\ hist.populates < MaxPopulate
    /\ \E r \in {PopulateRows(NewTree, 1, size)} :
        /\ r.err # "Panic"
        /\ r.s.npages <= MaxPages
        /\ Memory(r.s)
        /\ last' = [op |-> "populate", id |-> size, err |-> r.err]
        /\ hist' = [hist EXCEPT !.onlyInserts = FALSE,
                                !.populates = @ + 1,
                                !.errors = @ + (IF r.err = "Ok" THEN 0 ELSE 1)]
        /\ stored' = IF r.err = "Ok"
                     THEN [k \in DOMAIN stored \cup 1..size |->
                              IF k \in 1..size THEN PopulateVal ELSE stored[k]]
                     ELSE stored
        /\ snap' = NoSnap
    /\ UNCHANGED <<logVars, logged, ref>>
    /\ UNCHANGED pagerVars

\* handle_connection, Request::Populate
Populate(size) == PopulateCall(size) /\ UNCHANGED connVars

ServerNext ==
    \/ LogNext
    \/ \E size \in LogKeys : Populate(size)

SpecServer == LogInit /\ [][ServerNext]_vars

(***************************************************************************)
(* One page on its own: the row operations of storage/page.rs and the      *)
(* conversion of the page to and from the PAGE_SIZE buffer that            *)
(* BTreeStorage::write_to_disk and read_from_disk move to and from the     *)
(* file.  The buffer is the header (id, cells, parent, kind) followed by   *)
(* the rows one after the other, each in a slot of its serialized size,    *)
(* and zero bytes up to PAGE_SIZE.                                         *)
(***************************************************************************)
\* the children an internal row of the page under study may name
MaxChild == 2

\* whole rows that fit behind the header of the buffer
PageSlots(kind) == PageLimit(kind) - 1

\* the rows that Page::insert may be given for a page of this kind
RowsFor(kind) ==
    IF kind = "Internal"
    THEN {InternalRow(id, left, right) : id \in Keys, left \in 1..MaxChild, right \in 1..MaxChild}
    ELSE {LeafRow(id, val) : id \in Keys, val \in Vals}

\* `let bytes: Vec<u8> = cell.into()`
CellBytes(kind, row) ==
    IF kind = "Leaf" THEN RowBytes(row) ELSE <<row.id, row.left, row.right>>

\* the bytes of a slot that was never written
ZeroCell(kind) == IF kind = "Leaf" THEN <<0, 0>> ELSE <<0, 0, 0>>

\* `let row: Row = (&buf[..]).try_into()` on the bytes of one slot
CellFromBytes(kind, bytes) ==
    IF kind = "Leaf" THEN RowFromBytes(bytes).row
    ELSE InternalRow(bytes[1], bytes[2], bytes[3])

\* From<Page> for [u8; PAGE_SIZE]
PageToBytes(page) ==
    [id |-> page.offset, cells |-> page.cells, parent |-> page.parent,
     kind |-> IF page.kind = "Leaf" THEN PAGE_LEAF ELSE PAGE_INTERNAL,
     body |-> [i \in 1..PageSlots(page.kind) |->
                  IF i <= Len(page.rows) THEN CellBytes(page.kind, page.rows[i])
                  ELSE ZeroCell(page.kind)]]

RECURSIVE LoadCells(_, _, _, _, _, _)
\* the two `while offset < cells` loops of TryFrom<[u8; PAGE_SIZE]> for Page:
\* `pos += offset` adds the size of all rows loaded so far at every turn, and
\* a slice that ends behind the buffer panics
LoadCells(kind, body, cells, offset, pos, rows) ==
    IF offset >= cells THEN [err |-> "Ok", rows |-> rows]
    ELSE IF pos + offset >= Len(body) THEN [err |-> "Panic", rows |-> rows]
    ELSE With(CellFromBytes(kind, body[pos + offset + 1]), LAMBDA row :
         LoadCells(kind, body, cells, offset + RowSize(row), pos + offset, Append(rows, row)))

\* TryFrom<[u8; PAGE_SIZE]> for Page, with `page.offset = offset` of
\* read_from_disk
PageFromBytes(bytes) ==
    IF bytes.kind \notin {PAGE_LEAF, PAGE_INTERNAL} THEN [err |-> "DataWrangling", page |-> BadPage]
    ELSE With(IF bytes.kind = PAGE_LEAF THEN "Leaf" ELSE "Internal", LAMBDA kind :
         With(LoadCells(kind, bytes.body, bytes.cells, 0, 0, <<>>), LAMBDA loaded :
         [err |-> loaded.err,
          page |-> NewPage(bytes.id, kind, loaded.rows, bytes.cells, bytes.parent)]))

pageIdle == <<npages, root, breadcrumbs, trunc, logVars, stored, hist, logged, snap, ref,
              cache, metadata, pg, connVars, order>>

\* Page::new of an empty leaf or internal page; nothing is in the file
PageInit ==
    /\ \E kind \in {"Leaf", "Internal"} : pages = (1 :> NewPage(1, kind, <<>>, 0, 0))
    /\ npages = 2
    /\ root = 1
    /\ breadcrumbs = <<>>
    /\ trunc = FALSE
    /\ file = EmptyFile
    /\ commit = FALSE
    /\ wal = <<>>
    /\ entries = <<>>
    /\ proc = "up"
    /\ stored = << >>
    /\ last = [op |-> "new", id |-> 0, err |-> "Ok"]
    /\ hist = NoHist
    /\ logged = <<>>
    /\ snap = NoSnap
    /\ ref = FreshRef
    /\ ExtIdle

\* a page whose `kind` was taken and not put back: the rows are gone
Taken(page) == [page EXCEPT !.kind = "Unknown", !.rows = <<>>]

\* Page::cell_task around the search of one operation: `self.kind.take()`
\* first; the Full return and the normal end put the kind back, while the
\* `?` on the error of the search (Duplicate, Missing) returns without it,
\* and a page without kind answers Unknown
CellTask(page, row, Task(_, _)) ==
    IF page.kind = "Unknown" THEN [err |-> "Unknown", page |-> page]
    ELSE With(Task(page, row), LAMBDA r :
         IF r.err \in {"Duplicate", "Missing"} THEN [err |-> r.err, page |-> Taken(page)]
         ELSE r)

\* the result of a row operation: the page as the call left it
CellCall(op, id, r) ==
    /\ last.err # "Panic"
    /\ pages' = (1 :> r.page)
    /\ last' = [op |-> op, id |-> id, err |-> r.err]
    /\ UNCHANGED <<disk, pageIdle>>

CellInsert(row) == CellCall("insert", row.id, CellTask(pages[1], row, PageInsert))

CellDelete(row) == CellCall("delete", row.id, CellTask(pages[1], row, PageDelete))

CellUpdate(row) == CellCall("update", row.id, CellTask(pages[1], row, PageUpdate))

\* BTreeStorage::write_to_disk: the page is converted and written; the
\* conversion of a page without kind panics
PageWrite ==
    /\ last.err # "Panic"
    /\ disk' = IF pages[1].kind = "Unknown" THEN disk ELSE <<PageToBytes(pages[1])>>
    /\ last' = [op |-> "write", id |-> 0,
                err |-> IF pages[1].kind = "Unknown" THEN "Panic" ELSE "Ok"]
    /\ UNCHANGED <<pages, pageIdle>>

\* BTreeStorage::read_from_disk: the buffer is read and converted
PageRead ==
    /\ last.err # "Panic"
    /\ disk # <<>>
    /\ \E r \in {PageFromBytes(disk[1])} :
        /\ pages' = IF r.err = "Ok" THEN (1 :> r.page) ELSE pages
        /\ last' = [op |-> "read", id |-> 0, err |-> r.err]
    /\ UNCHANGED <<disk, pageIdle>>

PageNext ==
    \/ \E row \in RowsFor(pages[1].kind) : CellInsert(row)
    \/ \E row \in RowsFor(pages[1].kind) : CellDelete(row)
    \/ \E row \in RowsFor(pages[1].kind) : CellUpdate(row)
    \/ PageWrite
    \/ PageRead

SpecPage == PageInit /\ [][PageNext]_vars

(***************************************************************************)
(* The bytes of a page (SpecBytes): the sizes as the code counts them, in  *)
(* bytes, for one page that is filled, emptied and converted.              *)
(***************************************************************************)
PAGE_SIZE == 4096
PAGE_HEADER_SIZE == 25
LEAF_ROW_SIZE == 1156
INTERNAL_ROW_SIZE == 24

\* the ids of the rows given to the page stay below this
MaxByteKey == 171

\* Row::size(): the bytes of a row, by its type
SizeOf(row) == IF "val" \in DOMAIN row THEN LEAF_ROW_SIZE ELSE INTERNAL_ROW_SIZE

\* the capacity test of Page::cell_task on the byte counts
FullBytes(page, row) == page.cells + SizeOf(row) >= PAGE_SIZE

\* Page::insert on the byte counts
InsertBytes(page, row) ==
    IF FullBytes(page, row) THEN [err |-> "Full", page |-> page]
    ELSE With(BinarySearch(page.rows, row.id), LAMBDA bs :
         IF bs.found THEN [err |-> "Duplicate", page |-> page]
         ELSE [err |-> "Ok",
               page |-> [page EXCEPT
                   !.rows = CellTaskLinks(page, InsertAt(page.rows, bs.pos, row), bs.pos),
                   !.cells = page.cells + SizeOf(row)]])

\* Page::delete on the byte counts
DeleteBytes(page, row) ==
    IF FullBytes(page, row) THEN [err |-> "Full", page |-> page]
    ELSE With(BinarySearch(page.rows, row.id), LAMBDA bs :
         IF ~bs.found THEN [err |-> "Missing", page |-> page]
         ELSE [err |-> "Ok",
               page |-> [page EXCEPT
                   !.rows = CellTaskLinks(page, RemoveAt(page.rows, bs.pos), bs.pos),
                   !.cells = page.cells - SizeOf(page.rows[bs.pos + 1])]])

RECURSIVE WriteCells(_, _, _)
\* the `for_each` of From<Page> for [u8; PAGE_SIZE]: every row is copied to
\* buf[offset..offset + bytes.len()] and offset moves on; a slice that ends
\* behind the buffer panics (-1)
WriteCells(rows, i, offset) ==
    IF i > Len(rows) THEN offset
    ELSE IF offset + SizeOf(rows[i]) > PAGE_SIZE THEN -1
    ELSE WriteCells(rows, i + 1, offset + SizeOf(rows[i]))

\* the buffer that the conversion fills: the header and the rows written
BufferOf(page) ==
    [id |-> page.offset, cells |-> page.cells, parent |-> page.parent,
     kind |-> IF page.kind = "Leaf" THEN PAGE_LEAF ELSE PAGE_INTERNAL,
     body |-> [i \in 1..Len(page.rows) |-> CellBytes(page.kind, page.rows[i])]]

\* the row with this id for the page: a leaf holds leaf rows, an internal
\* page internal rows
ByteRow(page, id) ==
    IF page.kind = "Internal" THEN InternalRow(id, 1, 1) ELSE LeafRow(id, 1)

\* rows are given and taken back at the end of the page: the largest id of
\* the page and the one after it
ByteIds(page) ==
    IF page.rows = <<>> THEN {1}
    ELSE {page.rows[Len(page.rows)].id, page.rows[Len(page.rows)].id + 1} \cap (1..MaxByteKey)

ByteInsert(id) ==
    CellCall("insert", id, CellTask(pages[1], ByteRow(pages[1], id), InsertBytes))

ByteDelete(id) ==
    CellCall("delete", id, CellTask(pages[1], ByteRow(pages[1], id), DeleteBytes))

\* BTreeStorage::write_to_disk: `let bytes: [u8; PAGE_SIZE] = page.into()`
\* and the write of the buffer; the conversion panics for a page without
\* kind and for a row that ends behind the buffer
ByteWrite ==
    /\ last.err # "Panic"
    /\ \E ok \in {pages[1].kind # "Unknown"
                  /\ WriteCells(pages[1].rows, 1, PAGE_HEADER_SIZE) # -1} :
        /\ disk' = IF ok THEN <<BufferOf(pages[1])>> ELSE disk
        /\ last' = [op |-> "write", id |-> 0, err |-> IF ok THEN "Ok" ELSE "Panic"]
    /\ UNCHANGED <<pages, pageIdle>>

ByteNext ==
    \/ \E id \in ByteIds(pages[1]) : ByteInsert(id)
    \/ \E id \in ByteIds(pages[1]) : ByteDelete(id)
    \/ ByteWrite

SpecBytes == PageInit /\ [][ByteNext]_vars

(***************************************************************************)
(* Properties of the B-Tree storage (SpecTree).                            *)
(***************************************************************************)
Select == TreeSelect(Storage)

\* the rows put and not removed, in increasing id order
Expected ==
    [i \in 1..Cardinality(DOMAIN stored) |->
        LET id == CHOOSE k \in DOMAIN stored :
                      Cardinality({j \in DOMAIN stored : j < k}) = i - 1
        IN  LeafRow(id, stored[id])]

Levels3 ==
    /\ Rd(Storage, root).kind = "Internal"
    /\ \E i \in 1..Len(Rd(Storage, root).rows) :
           Rd(Storage, Rd(Storage, root).rows[i].left).kind = "Internal"

C3_DuplicateLeavesTreeUnchanged ==
    [][(last'.op = "insert" /\ last'.id \in DOMAIN stored) =>
          /\ last'.err = "Duplicate"
          /\ pages' = pages
          /\ npages' = npages
          /\ root' = root]_vars

\* C3 where it does hold: the leaf holding the id has room.
C3_Witness ==
    /\ last.op = "insert"
    /\ last.err = "Duplicate"
    /\ Rd(Storage, root).kind = "Leaf"
    /\ Len(Rd(Storage, root).rows) < CELLS_PER_LEAF

\* C10: in every reachable state of the storage, after any sequence of insert,
\* update and delete calls (failed ones included), the rows of every page are
\* in strictly increasing id order.
C10_PageRowsSorted ==
    \A id \in DOMAIN pages : Sorted(Ids(pages[id].rows))

\* C10 witness: after a successful delete, a full leaf and an internal page
\* with two pointers exist.
C10_Witness ==
    /\ last.op = "delete"
    /\ last.err = "Ok"
    /\ \E id \in DOMAIN pages :
           pages[id].kind = "Internal" /\ Len(pages[id].rows) >= 2
    /\ \E id \in DOMAIN pages :
           pages[id].kind = "Leaf" /\ Len(pages[id].rows) = CELLS_PER_LEAF

(***************************************************************************)
(* Properties of the logger (SpecLog) and of the server (SpecServer).      *)
(***************************************************************************)
Live == TreeSelect(NewTree)

\* what a restart would select now: Pager::open, Logger::open, select()
Restart == Replay(OpenPager(file), wal, 0, <<>>)
RestartRows == TreeSelect(Restart.s).out

\* no write of a log entry was cut short and no flush was interrupted so far
Graceful == hist.torn = 0 /\ ~hist.midflush

SameAsBeforeKill ==
    /\ last.err = "Ok"
    /\ Live.err = snap.err
    /\ Live.out = snap.rows

AckedEffect ==
    CASE last.op = "insert" -> LeafRow(last.id, stored[last.id]) \in Range(RestartRows)
      [] last.op = "update" -> LeafRow(last.id, stored[last.id]) \in Range(RestartRows)
      [] last.op = "delete" -> last.id \notin Range(Ids(RestartRows))
      [] OTHER -> \A i \in 1..last.id : LeafRow(i, PopulateVal) \in Range(RestartRows)

\* C5 (as stated): every mutating request the server answers with StateChanged
\* (Insert, Update and Delete queries and Populate) is in the log before the
\* response is sent, so that killing the process before any checkpoint and
\* restarting yields a select() that contains the effect of the request.
C5_AckedRequestSurvivesKill ==
    (/\ proc = "up"
     /\ last.op \in {"insert", "update", "delete", "populate"}
     /\ last.err = "Ok"
     /\ hist.errors = 0
     /\ Graceful) => (Restart.err = "Ok" /\ AckedEffect)

\* C5 where it does hold: an acknowledged Insert query on top of a checkpoint.
C5_Witness ==
    /\ proc = "up"
    /\ last.op = "insert"
    /\ last.err = "Ok"
    /\ hist.errors = 0
    /\ Graceful
    /\ file.exists
    /\ Len(logged.entries) >= 1
    /\ Restart.err = "Ok"
    /\ AckedEffect

\* C6 (as stated): a checkpoint is atomic with respect to kills: when the
\* process dies after the pager flush has begun and before the log is
\* truncated, the next open succeeds and yields the rows selected before the
\* kill (the replay neither fails nor duplicates).
C6_CheckpointAtomic ==
    (/\ last.op = "open"
     /\ snap.kind = "compact"
     /\ hist.errors = 0
     /\ hist.torn = 0
     /\ hist.crashes = 1) => SameAsBeforeKill

\* C6 where it does hold: the kill came before the flush wrote anything, or
\* the log was empty.
C6_Witness ==
    /\ last.op = "open"
    /\ snap.kind = "compact"
    /\ hist.errors = 0
    /\ hist.torn = 0
    /\ hist.crashes = 1
    /\ Len(snap.rows) >= 1
    /\ SameAsBeforeKill

\* C7: after a GlobalCheckpoint the log file has length 0 and Logger.entries is
\* empty; the entries accepted since the last checkpoint are exactly the ones
\* list_entries returns and exactly the ones an open would replay (while no
\* write of an entry was cut short since that checkpoint).
C7_CheckpointEmptiesLog ==
    /\ (last.op = "checkpoint") => (Len(wal) = 0 /\ entries = <<>>)
    /\ (proc = "up" /\ ~logged.torn) => (ListEntries(entries, wal) = logged.entries)
    /\ (~logged.torn) => (Decoded(wal, 0) = logged.entries)

\* C7 witness: a checkpoint has put rows in the file and emptied the log, and
\* one entry has been logged since.
C7_Witness ==
    /\ proc = "up"
    /\ last.op \in {"insert", "update", "delete"}
    /\ last.err = "Ok"
    /\ Graceful
    /\ file.exists
    /\ DirtyPages # {}
    /\ Len(logged.entries) = 1
    /\ Len(entries) = 1
    /\ Cardinality(DOMAIN stored) >= 2

C9_TornTailTruncated ==
    /\ (last.op = "open" /\ last.err = "Ok" /\ hist.errors = 0 /\ ~hist.midflush) =>
           (DecodedEnd(wal, 0) = Len(wal))
    /\ (proc = "up" /\ hist.errors = 0 /\ ~hist.midflush) =>
           (Decoded(wal, 0) = ListEntries(entries, wal))

\* C9 where the first part holds: the open replayed the whole entries before
\* the torn one.
C9_Witness ==
    /\ last.op = "open"
    /\ last.err = "Ok"
    /\ hist.torn = 1
    /\ Len(entries) >= 1
    /\ DecodedEnd(wal, 0) < Len(wal)

(***************************************************************************)
(* Structure of the tree (SpecTree).                                       *)
(***************************************************************************)
\* the children an internal page points to
Children(id) ==
    IF id \in DOMAIN pages /\ pages[id].kind = "Internal"
    THEN UNION {{pages[id].rows[i].left, pages[id].rows[i].right} :
                    i \in 1..Len(pages[id].rows)}
    ELSE {}

RECURSIVE ReachFrom(_, _, _)
\* the pages a traversal from `frontier` visits
ReachFrom(frontier, seen, fuel) ==
    IF frontier = {} \/ fuel = 0 THEN seen
    ELSE ReachFrom(((UNION {Children(id) : id \in frontier}) \cap DOMAIN pages)
                       \ (seen \cup frontier),
                   seen \cup frontier, fuel - 1)

\* the pages of the tree: the ones select_traverse reaches from the root
TreePages == ReachFrom({root} \cap DOMAIN pages, {}, MaxPages + 2)

InternalPages == {id \in DOMAIN pages : pages[id].kind = "Internal"}

Adjacent(page) ==
    \A i \in 1..(Len(page.rows) - 1) : page.rows[i].right = page.rows[i + 1].left

PointedFrom(id, parent) ==
    /\ parent \in InternalPages
    /\ \E i \in 1..Len(pages[parent].rows) :
           pages[parent].rows[i].left = id \/ pages[parent].rows[i].right = id

\* C12 (as stated): in every reachable state where no call has failed, every
\* page of the tree other than the root has a parent field naming a page that
\* holds a pointer row whose left or right is this page.
C12_ParentPointsBack ==
    hist.errors = 0 =>
        \A id \in TreePages \ {root} : PointedFrom(id, pages[id].parent)

\* C12 where it does hold: a tree of two levels after leaf splits and a merge.
C12_Witness ==
    /\ hist.errors = 0
    /\ last.op = "delete"
    /\ pages[root].kind = "Internal"
    /\ Len(pages[root].rows) = 2
    /\ ~Levels3
    /\ \A id \in TreePages \ {root} : PointedFrom(id, pages[id].parent)

RECURSIVE KeysUnder(_, _)
\* the ids stored in the leaves of the subtree under page id
KeysUnder(id, fuel) ==
    IF id \notin DOMAIN pages \/ fuel = 0 THEN {}
    ELSE IF pages[id].kind = "Leaf"
         THEN {pages[id].rows[i].id : i \in 1..Len(pages[id].rows)}
    ELSE UNION {KeysUnder(c, fuel - 1) : c \in Children(id)}

Separates(row) ==
    /\ \A k \in KeysUnder(row.left, MaxPages) : k < row.id
    /\ \A k \in KeysUnder(row.right, MaxPages) : k >= row.id

\* C13 (as stated): in every reachable tree where no call has failed, for
\* every internal row (id, left, right) every key under left is < id and every
\* key under right is >= id.
C13_SeparatorKeys ==
    hist.errors = 0 =>
        \A id \in TreePages \cap InternalPages :
            \A i \in 1..Len(pages[id].rows) : Separates(pages[id].rows[i])

\* C13 where it does hold: a tree of two levels with two separators.
C13_Witness ==
    /\ hist.errors = 0
    /\ last.op = "insert"
    /\ pages[root].kind = "Internal"
    /\ Len(pages[root].rows) = 2
    /\ ~Levels3
    /\ \A i \in 1..Len(pages[root].rows) : Separates(pages[root].rows[i])

(***************************************************************************)
(* The Pager of storage/pager.rs on its own.  A page of the file is the    *)
(* sequence of its native-endian 8-byte words without the trailing zero    *)
(* words, so that a page of zero bytes is the empty sequence.  The file is *)
(* the sequence of its pages: page id at position id + 1.                  *)
(***************************************************************************)
MaxPagerPages == 4
MaxFreePages == 2
MaxPagerCalls == 6

PageIds == 0..MaxPagerPages

RECURSIVE Trim(_)
\* a [u8; PAGE_SIZE] buffer starts as [0; PAGE_SIZE]: the words after the
\* last one written are zero
Trim(b) ==
    IF b # <<>> /\ b[Len(b)] = 0 THEN Trim(SubSeq(b, 1, Len(b) - 1)) ELSE b

Word(b, i) == IF i <= Len(b) THEN b[i] ELSE 0

\* vec![0; PAGE_SIZE]
Zeros == <<>>

\* impl From<&PagerMetadata> for [u8; PAGE_SIZE]: root at ROOT_PAGE, the
\* length of the free list at FREE_PAGES_LEN, pages at NUM_PAGES, the free
\* list from METADATA_HEADER_SIZE on
MetadataBytes(m) ==
    Trim(<<m.root, Len(m.free_pages), m.pages>> \o m.free_pages)

\* PagerMetadata::from_u8
from_u8(b) ==
    [free_pages |-> [i \in 1..Word(b, 2) |-> Word(b, 3 + i)],
     pages |-> Word(b, 3),
     root |-> Word(b, 1)]

\* Page::new(type, parent, vec![], 0): a page without rows; parent is <<>>
\* for None and <<id>> for Some(id)
NewPagerPage(type, parent) == [type |-> type, parent |-> parent]

\* the pages handed to Pager::write
PagerPages == {NewPagerPage("Leaf", <<>>), NewPagerPage("Internal", <<1>>)}

\* Page::as_bytes: the header (kind: u8, has_parent: u8, parent, n_rows) of a
\* page without rows; the first word holds kind, has_parent and the low
\* bytes of parent
as_bytes(page) ==
    Trim(<<(IF page.type = "Internal" THEN PAGE_INTERNAL ELSE PAGE_LEAF)
            + 256 * Len(page.parent)
            + 65536 * (IF page.parent = <<>> THEN 0 ELSE page.parent[1])>>)

\* TryFrom<&[u8]> for Page, strict: an unknown kind or has_parent byte, or a
\* row count the body cannot hold (any non-zero word after the first, for
\* the pages and metadata written here), is a corrupt page
try_into(b) ==
    IF \/ Len(b) > 1
       \/ Word(b, 1) % 256 \notin {PAGE_LEAF, PAGE_INTERNAL}
       \/ (Word(b, 1) \div 256) % 256 \notin {0, 1}
    THEN [err |-> "Corrupt", page |-> <<>>]
    ELSE [err |-> "Ok",
          page |-> <<NewPagerPage(
                        IF Word(b, 1) % 256 = PAGE_INTERNAL THEN "Internal" ELSE "Leaf",
                        IF (Word(b, 1) \div 256) % 256 = 1
                        THEN <<Word(b, 1) \div 65536>> ELSE <<>>)>>]

\* PagerMetadata::default()
NoMetadata == [free_pages |-> <<>>, pages |-> 0, root |-> 0]

\* the fields of a Pager that its calls change
Pgr(c, m) == [cache |-> c, metadata |-> m]

\* an is_valid that accepts every id
IsValidAlways(m, id) == TRUE

\* Pager::is_valid
is_valid(m, id) == ~(id >= m.pages /\ id \notin Range(m.free_pages))

\* Pager::stored_bytes(id, Some(update)): the cache entry is replaced
Cached(p, id, bytes) == [p EXCEPT !.cache = Put(@, id, bytes)]

RECURSIVE write_metadata(_), allocate(_)
\* an allocate that takes the id freed first
AllocateOldest(p) ==
    LET m == p.metadata
        n == Len(m.free_pages)
        id == IF n > 0 THEN m.free_pages[1] ELSE m.pages
        taken == IF n > 0 THEN [m EXCEPT !.free_pages = Tail(@)]
                 ELSE [m EXCEPT !.pages = @ + 1]
    IN  [p |-> Cached(write_metadata([p EXCEPT !.metadata = taken]), id, Zeros),
         id |-> id]

\* Pager::allocate
allocate(p) ==
    LET m == p.metadata
        n == Len(m.free_pages)
        id == IF n > 0 THEN m.free_pages[n] ELSE m.pages
        taken == IF n > 0 THEN [m EXCEPT !.free_pages = SubSeq(@, 1, n - 1)]
                 ELSE [m EXCEPT !.pages = @ + 1]
    IN  [p |-> Cached(write_metadata([p EXCEPT !.metadata = taken]), id, Zeros),
         id |-> id]

\* Pager::write_metadata
write_metadata(p) ==
    LET q == IF p.metadata.pages = 0
             THEN LET second == allocate(allocate(p).p)
                  IN  Cached([second.p EXCEPT !.metadata.root = second.id],
                             second.id, as_bytes(NewPagerPage("Leaf", <<>>)))
             ELSE p
    IN  Cached(q, METADATA_PAGE_ID, MetadataBytes(q.metadata))

\* Pager::free
free(p, id) ==
    IF ~is_valid(p.metadata, id) THEN [p |-> p, err |-> "OutOfBounds"]
    ELSE [p |-> write_metadata(Pgr(Drop(p.cache, id),
                                   [p.metadata EXCEPT !.free_pages = Append(@, id)])),
          err |-> "Ok"]

\* Pager::stored_bytes(id, None): the cached bytes, or the page of the file
\* paged in (Pager::read_bytes fails beyond the end of the file)
stored_bytes(p, d, id) ==
    IF id \in DOMAIN p.cache THEN [p |-> p, err |-> "Ok", bytes |-> p.cache[id]]
    ELSE IF id < Len(d) THEN [p |-> Cached(p, id, d[id + 1]), err |-> "Ok", bytes |-> d[id + 1]]
    ELSE [p |-> p, err |-> "Io", bytes |-> Zeros]

\* Pager::read
read(p, d, id) ==
    IF ~is_valid(p.metadata, id) THEN [p |-> p, err |-> "OutOfBounds", page |-> <<>>]
    ELSE LET sb == stored_bytes(p, d, id)
         IN  IF sb.err # "Ok" THEN [p |-> sb.p, err |-> sb.err, page |-> <<>>]
             ELSE [p |-> sb.p, err |-> try_into(sb.bytes).err, page |-> try_into(sb.bytes).page]

\* Pager::write
write(p, id, page) ==
    IF ~is_valid(p.metadata, id) THEN [p |-> p, err |-> "OutOfBounds"]
    ELSE [p |-> Cached(p, id, as_bytes(page)), err |-> "Ok"]

\* Pager::set_root
set_root(p, id) == write_metadata([p EXCEPT !.metadata.root = id])

\* Pager::write_bytes at offset id * PAGE_SIZE: a write beyond the end of the
\* file leaves zero bytes in between
write_bytes(d, id, bytes) ==
    IF id < Len(d) THEN [d EXCEPT ![id + 1] = bytes]
    ELSE d \o [i \in 1..(id - Len(d)) |-> Zeros] \o <<bytes>>

RECURSIVE WriteCache(_, _)
\* the loop of Pager::flush: the entries of the BTreeMap in page id order
WriteCache(d, c) ==
    IF DOMAIN c = {} THEN d
    ELSE LET id == CHOOSE x \in DOMAIN c : \A y \in DOMAIN c : x <= y
         IN  WriteCache(write_bytes(d, id, c[id]), Drop(c, id))

\* a flush that does not look at Pager.commit
FlushAlways(p, on, d) ==
    [p |-> [p EXCEPT !.cache = << >>], disk |-> WriteCache(d, p.cache)]

\* Pager::flush
flush(p, on, d) ==
    IF ~on THEN [p |-> p, disk |-> d]
    ELSE [p |-> [p EXCEPT !.cache = << >>], disk |-> WriteCache(d, p.cache)]

\* Pager::open: read_metadata on a file that has bytes, write_metadata on
\* an empty one
open(d) ==
    IF Len(d) > 0
    THEN Pgr((METADATA_PAGE_ID :> d[1]), from_u8(d[1]))
    ELSE write_metadata(Pgr(<< >>, NoMetadata))

Pager == Pgr(cache, metadata)

idleVars == <<treeVars, file, wal, entries, stored, hist, logged, snap, ref, connVars, order>>

PagerCall(op, id, err, page) ==
    [op |-> op, id |-> id, err |-> err, page |-> page, commit |-> commit]

\* Pager::open on an empty file
PagerInit ==
    /\ pages = NoPages
    /\ npages = 0
    /\ root = 0
    /\ breadcrumbs = <<>>
    /\ trunc = FALSE
    /\ file = EmptyFile
    /\ wal = <<>>
    /\ entries = <<>>
    /\ stored = << >>
    /\ hist = NoHist
    /\ logged = <<>>
    /\ snap = NoSnap
    /\ ref = FreshRef
    /\ pc = [h \in Handlers |-> "read"]
    /\ req = [h \in Handlers |-> NoRequest]
    /\ holder = 0
    /\ locks = <<>>
    /\ main = "listen"
    /\ jobs = 0
    /\ order = CELLS_PER_INTERNAL
    /\ disk = <<>>
    /\ cache = open(<<>>).cache
    /\ metadata = open(<<>>).metadata
    /\ commit = TRUE
    /\ proc = "up"
    /\ last = [op |-> "open", id |-> 0, err |-> "Ok", page |-> <<>>, commit |-> TRUE]
    /\ pg = [NoPager EXCEPT !.dirty = Drop(open(<<>>).cache, METADATA_PAGE_ID),
                            !.opened = [root |-> open(<<>>).metadata.root,
                                        pages |-> open(<<>>).metadata.pages]]

Become(p) ==
    /\ cache' = p.cache
    /\ metadata' = p.metadata

\* the Pager still exists and the run has calls left
Callable == proc = "up" /\ pg.calls < MaxPagerCalls

PagerAllocate ==
    /\ Callable
    /\ metadata.free_pages # <<>> \/ metadata.pages < MaxPagerPages
    /\ \E r \in {allocate(Pager)} :
        /\ Become(r.p)
        /\ last' = PagerCall("allocate", r.id, "Ok", <<>>)
        /\ pg' = [pg EXCEPT !.calls = @ + 1, !.dirty = Put(@, r.id, Zeros)]
    /\ UNCHANGED <<disk, commit, proc, idleVars>>

PagerFree(id) ==
    /\ Callable
    /\ Len(metadata.free_pages) < MaxFreePages
    /\ \E r \in {free(Pager, id)} :
        /\ Become(r.p)
        /\ last' = PagerCall("free", id, r.err, <<>>)
        /\ pg' = [pg EXCEPT !.calls = @ + 1, !.written = << >>,
                            !.dirty = IF r.err = "Ok" THEN Drop(@, id) ELSE @]
    /\ UNCHANGED <<disk, commit, proc, idleVars>>

PagerRead(id) ==
    /\ Callable
    /\ \E r \in {read(Pager, disk, id)} :
        /\ Become(r.p)
        /\ last' = PagerCall("read", id, r.err, r.page)
    /\ pg' = [pg EXCEPT !.calls = @ + 1, !.plain = FALSE]
    /\ UNCHANGED <<disk, commit, proc, idleVars>>

PagerWrite(id, page) ==
    /\ Callable
    /\ \E r \in {write(Pager, id, page)} :
        /\ Become(r.p)
        /\ last' = PagerCall("write", id, r.err, <<page>>)
        /\ pg' = IF r.err = "Ok"
                 THEN [pg EXCEPT !.calls = @ + 1, !.written = Put(@, id, page),
                                 !.dirty = Put(@, id, as_bytes(page)),
                                 !.plain = FALSE]
                 ELSE [pg EXCEPT !.calls = @ + 1, !.plain = FALSE]
    /\ UNCHANGED <<disk, commit, proc, idleVars>>

PagerSetRoot(id) ==
    /\ Callable
    /\ Become(set_root(Pager, id))
    /\ last' = PagerCall("set_root", id, "Ok", <<>>)
    /\ pg' = [pg EXCEPT !.calls = @ + 1, !.written = << >>, !.plain = FALSE]
    /\ UNCHANGED <<disk, commit, proc, idleVars>>

\* Pager::commit
PagerCommit(on) ==
    /\ Callable
    /\ commit' = on
    /\ last' = PagerCall("commit", 0, "Ok", <<>>)
    /\ pg' = [pg EXCEPT !.calls = @ + 1, !.plain = FALSE]
    /\ UNCHANGED <<cache, metadata, disk, proc, idleVars>>

Flushed(op) ==
    /\ \E r \in {flush(Pager, commit, disk)} :
        /\ Become(r.p)
        /\ disk' = r.disk
    /\ last' = PagerCall(op, 0, "Ok", <<>>)
    /\ UNCHANGED <<commit, idleVars>>

PagerFlush ==
    /\ Callable
    /\ Flushed("flush")
    /\ pg' = [pg EXCEPT !.calls = @ + 1, !.plain = FALSE,
                        !.flushed = @ \/ commit,
                        !.synced = IF commit THEN pg.dirty ELSE @,
                        !.dirty = IF commit THEN << >> ELSE @]
    /\ UNCHANGED proc

\* impl Drop for Pager
PagerDrop ==
    /\ Callable
    /\ Flushed("drop")
    /\ proc' = "down"
    /\ pg' = [pg EXCEPT !.calls = @ + 1, !.plain = FALSE,
                        !.written = << >>,
                        !.flushed = @ \/ commit,
                        !.synced = IF commit THEN pg.dirty ELSE @,
                        !.dirty = IF commit THEN << >> ELSE @]

\* Pager::open on the file a dropped Pager left
PagerOpen ==
    /\ proc = "down"
    /\ pg.calls < MaxPagerCalls
    /\ Become(open(disk))
    /\ commit' = TRUE
    /\ proc' = "up"
    /\ last' = PagerCall("open", 0, "Ok", <<>>)
    /\ pg' = [pg EXCEPT !.calls = @ + 1, !.opened = [root |-> open(disk).metadata.root,
                                    pages |-> open(disk).metadata.pages],
                        !.flushed = FALSE,
                        !.discarded = metadata # open(disk).metadata,
                        !.dirty = IF Len(disk) > 0 THEN << >>
                                  ELSE Drop(open(disk).cache, METADATA_PAGE_ID)]
    /\ UNCHANGED <<disk, idleVars>>

PagerNext ==
    \/ PagerAllocate
    \/ \E id \in PageIds : PagerFree(id)
    \/ \E id \in PageIds : PagerRead(id)
    \/ \E id \in PageIds, page \in PagerPages : PagerWrite(id, page)
    \/ \E id \in PageIds : PagerSetRoot(id)
    \/ \E on \in BOOLEAN : PagerCommit(on)
    \/ PagerFlush
    \/ PagerDrop
    \/ PagerOpen

SpecPager == PagerInit /\ [][PagerNext]_vars

(***************************************************************************)
(* Properties of the Pager (SpecPager).                                    *)
(***************************************************************************)
NoDuplicates(seq) == \A i, j \in 1..Len(seq) : i # j => seq[i] # seq[j]

\* the free list holds each id once, only ids below metadata.pages, and
\* neither the metadata page nor the root
FreeListSound(m) ==
    /\ NoDuplicates(m.free_pages)
    /\ \A i \in 1..Len(m.free_pages) :
        /\ m.free_pages[i] < m.pages
        /\ m.free_pages[i] \notin {METADATA_PAGE_ID, m.root}

\* C14: after any sequence of allocate and free calls on a Pager opened on
\* an empty file, the free list has no duplicate id, only ids below
\* metadata.pages, and neither page 0 nor the root page.
C14_FreeListSound == pg.plain => FreeListSound(metadata)

C14_Witness ==
    /\ pg.plain
    /\ last.op = "free"
    /\ last.err = "Ok"
    /\ metadata.pages = 4
    /\ metadata.free_pages = <<2>>
    /\ FreeListSound(metadata)

\* the step is a call of Pager::allocate
AllocateStep == last'.op = "allocate"

Front(seq) == SubSeq(seq, 1, Len(seq) - 1)

\* C15: allocate returns the id freed most recently and leaves
\* metadata.pages alone when the free list is not empty; otherwise it
\* returns metadata.pages and increments it.  The first allocate on a new
\* file returns 2 and leaves metadata.pages = 3.
C15_AllocateOrder ==
    [][AllocateStep =>
        /\ IF metadata.free_pages # <<>>
           THEN /\ last'.id = metadata.free_pages[Len(metadata.free_pages)]
                /\ metadata'.free_pages = Front(metadata.free_pages)
                /\ metadata'.pages = metadata.pages
           ELSE /\ last'.id = metadata.pages
                /\ metadata'.free_pages = <<>>
                /\ metadata'.pages = metadata.pages + 1
        /\ pg.calls = 0 => last'.id = 2 /\ metadata'.pages = 3]_vars

C15_Witness ==
    /\ last.op = "allocate"
    /\ last.id = 3
    /\ metadata.free_pages = <<2>>
    /\ metadata.pages = 4
    /\ pg.plain

\* C16: a read of a valid page id returns a page equal to the one passed to
\* the latest write of that id, whatever reads, writes of other ids,
\* allocations, commit changes and flushes came in between.
C16_ReadAfterWrite ==
    (last.op = "read" /\ last.id \in DOMAIN pg.written) =>
        /\ last.err = "Ok"
        /\ last.page = <<pg.written[last.id]>>

C16_Witness ==
    /\ last.op = "read"
    /\ last.id = 2
    /\ last.id \in DOMAIN pg.written
    /\ pg.flushed
    /\ last.err = "Ok"
    /\ last.page = <<NewPagerPage("Internal", <<1>>)>>
    /\ last.page = <<pg.written[last.id]>>

\* C17: only a flush (or the drop, which flushes) made while commit is
\* enabled changes the file; whatever was called while commit is false, a
\* flush or a drop leaves the file as it was, and a Pager opened again on a
\* file that was not changed reports the root and the number of pages it
\* reported at the previous open.
C17_CommitGuardsFile ==
    [][/\ disk' # disk => (last'.op \in {"flush", "drop"} /\ commit)
       /\ (last'.op = "open" /\ ~pg.flushed) =>
            /\ metadata'.root = pg.opened.root
            /\ metadata'.pages = pg.opened.pages]_vars

C17_Witness ==
    /\ last.op = "open"
    /\ pg.discarded
    /\ ~pg.plain
    /\ disk = <<>>
    /\ metadata.root = pg.opened.root
    /\ metadata.pages = 2

\* the state follows a flush made while commit was enabled
AfterFlush == last.op = "flush" /\ last.commit

\* what a caller sees of Pager::read
Returned(p, d, id) == [err |-> read(p, d, id).err, page |-> read(p, d, id).page]

\* C18: after a flush with commit enabled the file holds every page written
\* or allocated since the previous flush and the current metadata, and a
\* Pager opened on the file reports the same root, number of pages and free
\* list and returns equal pages from read.
C18_FlushPersists ==
    AfterFlush =>
        /\ \A id \in DOMAIN pg.synced : id < Len(disk) /\ disk[id + 1] = pg.synced[id]
        /\ Len(disk) > 0
        /\ disk[1] = MetadataBytes(metadata)
        /\ open(disk).metadata = metadata
        /\ \A id \in PageIds : Returned(open(disk), disk, id) = Returned(Pager, disk, id)

C18_Witness ==
    /\ AfterFlush
    /\ DOMAIN pg.synced = {1, 3}
    /\ pg.synced[3] = as_bytes(NewPagerPage("Internal", <<1>>))
    /\ disk[4] = pg.synced[3]
    /\ disk[1] = MetadataBytes(metadata)
    /\ metadata.free_pages = <<2>>
    /\ open(disk).metadata = metadata
    /\ Returned(open(disk), disk, 3) = [err |-> "Ok", page |-> <<NewPagerPage("Internal", <<1>>)>>]

\* the step is a read, write or free of an id that is neither below
\* metadata.pages nor in the free list
OutOfBoundsStep ==
    /\ last'.op \in {"read", "write", "free"}
    /\ last'.id >= metadata.pages
    /\ last'.id \notin Range(metadata.free_pages)

\* C19: read, write and free of an id that is not below metadata.pages and
\* not in the free list fail with OutOfBounds and leave the cache, the
\* metadata and the file as they were.
C19_OutOfBounds ==
    [][OutOfBoundsStep =>
        /\ last'.err = "OutOfBounds"
        /\ UNCHANGED <<cache, metadata, disk>>]_vars

C19_Witness ==
    /\ last.op = "free"
    /\ last.id = 3
    /\ last.err = "OutOfBounds"
    /\ metadata.pages = 3
    /\ metadata.free_pages = <<2>>
    /\ 3 \notin DOMAIN cache

(***************************************************************************)
(* The connection handlers of protocol/server.rs.  Every worker of the     *)
(* ThreadPool runs handle_connection on its own stream; the handlers share *)
(* the Arc<Mutex<Logger>>.  A handler reads a request, locks the logger,   *)
(* runs the request on the logger or on a BTree over the logger's pager,   *)
(* drops the guard at the end of the match arm and writes the response.    *)
(* The run ends before the StorageServer is dropped.                       *)
(***************************************************************************)
Mutations == {"insert", "update", "delete"}

\* the Request values read from the streams
Requests ==
    {[kind |-> kind, id |-> id, val |-> val] :
        kind \in {"insert", "update"}, id \in LogKeys, val \in Vals}
    \cup {[kind |-> "delete", id |-> id, val |-> 0] : id \in LogKeys}
    \cup {[kind |-> "populate", id |-> size, val |-> 0] : size \in LogKeys}
    \cup {[kind |-> kind, id |-> 0, val |-> 0] : kind \in {"select", "structure", "ping", "close"}}

\* a thread panicked while it held the guard: the Logger is out of reach
Poisoned == proc = "down"

\* a lock that is granted while another handler holds the guard
MutexIgnored == TRUE

\* Mutex::lock returns once no other thread holds the guard
MutexFree == holder = 0

\* handlers between `logger.lock().unwrap()` and the drop of the guard
Inside == {h \in Handlers : pc[h] \in {"locked", "hung", "done"}}

\* transport.read_request and the arms that do not touch the storage
ReadRequest(h, r) ==
    /\ pc[h] = "read"
    /\ req' = [req EXCEPT ![h] = IF r.kind \in {"ping", "close"} THEN @ ELSE r]
    /\ pc' = [pc EXCEPT ![h] =
                CASE r.kind = "close" -> "closed"
                  [] r.kind = "ping" -> "read"
                  [] OTHER -> "wait"]
    /\ UNCHANGED <<holder, locks, main, jobs, treeVars, logVars, ghostVars, pagerVars>>

\* `let mut logger = logger.lock().unwrap()`; on a poisoned mutex unwrap
\* panics and the handler never gets in
LockLogger(h) ==
    /\ pc[h] = "wait"
    /\ MutexFree
    /\ ~Poisoned
    /\ holder' = h
    /\ pc' = [pc EXCEPT ![h] = "locked"]
    /\ locks' = IF req[h].kind \in Mutations
                THEN Append(locks, [h |-> h, kind |-> req[h].kind, id |-> req[h].id,
                                    val |-> req[h].val, state |-> "held"])
                ELSE locks
    /\ UNCHANGED <<req, main, jobs, treeVars, logVars, ghostVars, pagerVars>>

\* an error of the storage ends the connection: the handler leaves the loop
\* with the guard still held
SettleAbort(h, err) ==
    /\ pc' = [pc EXCEPT ![h] = IF err = "Ok" THEN "done" ELSE "dead"]
    /\ UNCHANGED <<holder, req, main, jobs>>

\* the end of the call made under the guard: a panic unwinds and drops the
\* guard, a call that never returns keeps it
Settle(h, err) ==
    /\ pc' = [pc EXCEPT ![h] =
                CASE err = "Panic" -> "dead"
                  [] err = "Loop" -> "hung"
                  [] OTHER -> "done"]
    /\ holder' = IF err = "Panic" THEN 0 ELSE holder
    /\ UNCHANGED <<req, main, jobs>>

\* the entry of handler h that waits for its call gets the outcome
Mark(h, state) ==
    [i \in 1..Len(locks) |->
        IF locks[i].h = h /\ locks[i].state = "held"
        THEN [locks[i] EXCEPT !.state = state] ELSE locks[i]]

\* Request::Query with Insert, Update or Delete: logger.log(entry)
HandleQuery(h) ==
    /\ pc[h] = "locked"
    /\ req[h].kind \in Mutations
    /\ Log(req[h].kind, req[h].id, req[h].val)
    /\ Settle(h, last'.err)
    /\ locks' = Mark(h, IF last'.err = "Ok" THEN "logged" ELSE "failed")

\* Request::Query with Select and Request::PrintStructure: a traversal
HandleSelect(h) ==
    /\ pc[h] = "locked"
    /\ req[h].kind \in {"select", "structure"}
    /\ \E sel \in {TreeSelect(NewTree)} :
        /\ last' = [op |-> req[h].kind, id |-> 0, err |-> sel.err]
        /\ Settle(h, sel.err)
    /\ UNCHANGED <<locks, treeVars, logVars, stored, hist, logged, snap, ref, pagerVars>>

\* Request::Populate
HandlePopulate(h) ==
    /\ pc[h] = "locked"
    /\ req[h].kind = "populate"
    /\ PopulateCall(req[h].id)
    /\ Settle(h, last'.err)
    /\ UNCHANGED locks

\* the guard is dropped at the end of the arm, then
\* transport.write_response(resp)
Unlock(h) ==
    /\ pc[h] = "done"
    /\ holder' = 0
    /\ pc' = [pc EXCEPT ![h] = "read"]
    /\ req' = [req EXCEPT ![h] = NoRequest]
    /\ UNCHANGED <<locks, main, jobs, treeVars, logVars, ghostVars, pagerVars>>

ConnNext ==
    \/ \E h \in Handlers, r \in Requests : ReadRequest(h, r)
    \/ \E h \in Handlers : LockLogger(h)
    \/ \E h \in Handlers : HandleQuery(h)
    \/ \E h \in Handlers : HandleSelect(h)
    \/ \E h \in Handlers : HandlePopulate(h)
    \/ \E h \in Handlers : Unlock(h)

SpecConn == LogInit /\ [][ConnNext]_vars

(***************************************************************************)
(* The end of StorageServer::listen.  On Ctrl-C or a broken listener the   *)
(* loop breaks and listen returns: `self` goes out of scope, so            *)
(* Drop::drop of StorageServer runs first and the fields are dropped       *)
(* after it in declaration order (address, logger, pool).  ThreadPool's    *)
(* Drop drops the sender and joins the workers one by one; a Worker loops  *)
(* for ever, in a connection or on the closed channel, so the first join   *)
(* does not return and the main thread has no further step.                *)
(***************************************************************************)
\* Pager::flush with commit enabled: every cache entry is in the file
FlushedFile ==
    [exists |-> TRUE, root |-> root, npages |-> npages,
     pages |-> [id \in DOMAIN file.pages \cup DOMAIN pages |->
                   IF id \in DOMAIN pages THEN pages[id] ELSE file.pages[id]]]

\* the listen loop breaks and StorageServer is dropped: Drop::drop locks
\* the logger and logs the GlobalCheckpoint (Logger::compact)
Interrupt ==
    /\ main = "listen"
    /\ proc = "up"
    /\ MutexFree
    /\ ~Poisoned
    /\ main' = "dropped"
    /\ file' = FlushedFile
    /\ commit' = FALSE
    /\ entries' = <<>>
    /\ wal' = TruncateLog(wal)
    /\ logged' = [entries |-> <<>>, torn |-> FALSE]
    /\ last' = [op |-> "checkpoint", id |-> 0, err |-> "Ok"]
    /\ UNCHANGED <<treeVars, proc, stored, hist, snap, ref, pagerVars, pc, req, holder, locks, jobs>>

\* the pool field is dropped: ThreadPool::drop drops the sender and waits
\* in the join of the first worker
PoolDrop ==
    /\ main = "dropped"
    /\ main' = "joining"
    /\ UNCHANGED <<treeVars, logVars, ghostVars, pagerVars, pc, req, holder, locks, jobs>>

\* the mutations that lock the logger in a run with a shutdown
MaxStopLog == 1

StopNext ==
    \/ ConnNext /\ Len(locks') <= MaxStopLog
    \/ Interrupt
    \/ PoolDrop

SpecStop == LogInit /\ [][StopNext]_vars

(***************************************************************************)
(* The workers of protocol/thread.rs.  ThreadPool::execute sends a job on  *)
(* the channel of the pool; every Worker loops on receiver.recv() and runs *)
(* the job it receives, which is                                           *)
(* `handle_connection(stream, logger).expect("connection failed")`.        *)
(* pc[h] = "closed" is a worker whose job has returned and that is in      *)
(* recv again, "spin" a worker that has found the channel closed, "dead"   *)
(* a worker whose thread was ended by a panic.  The run starts with every  *)
(* worker in a connection.                                                 *)
(***************************************************************************)
\* the jobs that wait in the channel
MaxJobs == 2

\* the requests of the clients in a run that studies the pool
PoolRequests == {r \in Requests : r.kind \in {"ping", "close", "select"}}

\* the worker threads that have not ended
Alive == {h \in Handlers : pc[h] # "dead"}

\* the workers inside the loop of Worker::new with no job to run
InRecvLoop(h) == pc[h] \in {"closed", "spin"}

\* listen, `self.pool.execute(..)`: `sender.send(job).unwrap()`.  The
\* Receiver belongs to the closures of the workers; when the last of them
\* has unwound it is dropped, send fails and unwrap panics in the main thread
Execute ==
    /\ main = "listen"
    /\ jobs < MaxJobs
    /\ IF Alive = {}
       THEN main' = "panicked" /\ jobs' = jobs
       ELSE main' = main /\ jobs' = jobs + 1
    /\ UNCHANGED <<pc, req, holder, locks, treeVars, logVars, ghostVars, pagerVars>>

\* Worker: `receiver.lock().unwrap().recv()` yields Ok(job) and the worker
\* runs it: handle_connection waits for the first request
Recv(h) ==
    /\ pc[h] = "closed"
    /\ jobs > 0
    /\ jobs' = jobs - 1
    /\ pc' = [pc EXCEPT ![h] = "read"]
    /\ req' = [req EXCEPT ![h] = NoRequest]
    /\ UNCHANGED <<holder, locks, main, treeVars, logVars, ghostVars, pagerVars>>

\* Worker: the sender is dropped and the channel is empty, recv yields Err;
\* the arm logs "disconnected" and the loop goes on to the next recv
RecvErr(h) ==
    /\ InRecvLoop(h)
    /\ jobs = 0
    /\ main = "joining"
    /\ pc' = [pc EXCEPT ![h] = "spin"]
    /\ UNCHANGED <<req, holder, locks, main, jobs, treeVars, logVars, ghostVars, pagerVars>>

\* the stream breaks: transport.read_request()? or, after the guard of the
\* logger is dropped, transport.write_response(resp)? returns the error,
\* handle_connection returns Err and `.expect("connection failed")` panics
\* in the job, which unwinds the thread of the worker
Disconnect(h) ==
    /\ pc[h] \in {"read", "done"}
    /\ pc' = [pc EXCEPT ![h] = "dead"]
    /\ holder' = IF pc[h] = "done" THEN 0 ELSE holder
    /\ req' = [req EXCEPT ![h] = NoRequest]
    /\ last' = [op |-> "disconnect", id |-> h, err |-> "Transport"]
    /\ UNCHANGED <<locks, main, jobs, treeVars, logVars, stored, hist, logged, snap, ref,
                   pagerVars>>

\* ThreadPool::drop after the sender is gone: `worker.thread.join().unwrap()`,
\* the first worker first.  join returns when the thread has ended, with Err
\* for a thread that a panic has ended, and unwrap panics
JoinWorker ==
    /\ main = "joining"
    /\ pc[1] = "dead"
    /\ main' = "panicked"
    /\ UNCHANGED <<pc, req, holder, locks, jobs, treeVars, logVars, ghostVars, pagerVars>>

PoolNext ==
    \/ \E h \in Handlers, r \in PoolRequests : ReadRequest(h, r)
    \/ \E h \in Handlers : LockLogger(h)
    \/ \E h \in Handlers : HandleSelect(h)
    \/ \E h \in Handlers : Unlock(h)
    \/ \E h \in Handlers : Disconnect(h)
    \/ \E h \in Handlers : Recv(h)
    \/ \E h \in Handlers : RecvErr(h)
    \/ Execute
    \/ Interrupt
    \/ PoolDrop
    \/ JoinWorker

SpecPool == LogInit /\ [][PoolNext]_vars

\* the threads of the server are scheduled: a worker or the main thread
\* that can take a step takes it; the clients owe nothing
FairPool ==
    /\ SpecPool
    /\ \A h \in Handlers :
          /\ WF_vars(LockLogger(h))
          /\ WF_vars(HandleSelect(h))
          /\ WF_vars(Unlock(h))
          /\ WF_vars(Recv(h))
          /\ WF_vars(RecvErr(h))
    /\ WF_vars(PoolDrop)
    /\ WF_vars(JoinWorker)

(***************************************************************************)
(* Properties of the connection handlers (SpecConn).                       *)
(***************************************************************************)
RECURSIVE WalOf(_)
\* the log file that the entries marked as logged give, in the order of locks
WalOf(entries_) ==
    IF entries_ = <<>> THEN <<>>
    ELSE (IF Head(entries_).state = "logged"
          THEN EncodeEntry(Head(entries_).kind, LeafRow(Head(entries_).id, Head(entries_).val))
          ELSE <<>>) \o WalOf(Tail(entries_))

\* C20: at most one connection handler at a time is between the lock of the
\* logger and the drop of its guard, where the B-Tree, pager and logger
\* calls are made, and the mutation entries of the log file are in the
\* order in which their handlers locked the logger.
C20_SerializedByLock ==
    /\ Cardinality(Inside) <= 1
    /\ Inside = (IF holder = 0 THEN {} ELSE {holder})
    /\ wal = WalOf(locks)

C20_Witness ==
    /\ Len(locks) = 2
    /\ locks[1].h # locks[2].h
    /\ locks[1].state = "logged"
    /\ locks[2].state = "logged"
    /\ pc[locks[1].h] = "wait"
    /\ pc[locks[2].h] = "done"
    /\ wal = WalOf(locks)
    /\ wal # <<>>

\* the step in which handler h runs its Select under the guard
SelectStep(h) ==
    /\ pc[h] = "locked"
    /\ req[h].kind = "select"
    /\ pc'[h] # "locked"

\* the last mutation of id for which Logger::log returned success (0: none)
LastLogged(id) ==
    LET hits == {i \in 1..Len(locks) : locks[i].state = "logged" /\ locks[i].id = id}
    IN  IF hits = {} THEN 0 ELSE CHOOSE i \in hits : \A j \in hits : j <= i

\* the rows of a Select show the last logged mutation of every id (a
\* Populate, which is not logged, may insert a deleted id again)
Reflects(rows) ==
    \A id \in LogKeys :
        LastLogged(id) # 0 =>
            IF locks[LastLogged(id)].kind = "delete"
            THEN id \notin Range(Ids(rows)) \/ hist.populates > 0
            ELSE \E j \in 1..Len(rows) : rows[j] = LeafRow(id, locks[LastLogged(id)].val)

Returned_Err == {"Duplicate", "Missing", "Full", "Io", "Corrupt", "OutOfBounds"}

\* the call made under the guard by handler h returns an error
FailStep(h) ==
    /\ pc[h] = "locked"
    /\ pc'[h] # "locked"
    /\ last'.err \in Returned_Err

\* handler h drops the guard and writes the Err response of its failed call
ErrReplyStep(h) ==
    /\ pc[h] = "done"
    /\ pc'[h] # "done"
    /\ last.err \in Returned_Err

Stopping == main \in {"dropped", "joining"}

\* C23: once the final GlobalCheckpoint of the shutdown is written, no
\* mutation is applied or appended any more: the log file stays empty.
C23_NoLogAfterCheckpoint == Stopping => wal = <<>>

\* the final checkpoint emptied a log that held entries, and it was written
\* before ThreadPool::drop, while a connection handler is still in its loop
C23_Witness ==
    /\ main = "dropped"
    /\ last.op = "checkpoint"
    /\ wal = <<>>
    /\ file.exists
    /\ \E i \in 1..Len(locks) : locks[i].state = "logged"
    /\ \E h \in Handlers : pc[h] = "wait"

(***************************************************************************)
(* Updates of the B-Tree storage (SpecTree).                               *)
(***************************************************************************)
\* BTreeStorage::update was called with an id that the tree stores
UpdateOfStored == last'.op = "update" /\ last'.id \in DOMAIN stored

\* C25: an update of a stored id succeeds also when the row does not fit
\* in its leaf (by delete and insert, with a split if needed), and select()
\* afterwards is sorted and holds that id once, with the new value, next to
\* the other rows unchanged.
C25_UpdateAlwaysFits ==
    [][UpdateOfStored =>
          /\ last'.err = "Ok"
          /\ Select'.err = "Ok"
          /\ Sorted(Ids(Select'.out))
          /\ Select'.out = Expected']_vars

\* an update that found room in its leaf, in a tree of two levels
C25_Witness ==
    /\ last.op = "update"
    /\ last.err = "Ok"
    /\ Rd(Storage, root).kind = "Internal"
    /\ Select.out = Expected

\* BTreeStorage::insert is called on a tree that is one full root leaf
RootLeafOverflow ==
    /\ last'.op = "insert"
    /\ pages[root].kind = "Leaf"
    /\ CellTaskFull(pages[root], LeafRow(last'.id, 0))

\* C26: an insert that overflows a tree of a single root leaf leaves exactly
\* three tree pages: a new internal root (the stored root id) with exactly
\* one separator, whose left is the old leaf and whose right is the new
\* leaf, and both leaves have the new root as their parent.
C26_RootLeafSplit ==
    [][RootLeafOverflow =>
          /\ root' \notin DOMAIN pages
          /\ root' \in DOMAIN pages'
          /\ pages'[root'].kind = "Internal"
          /\ Len(pages'[root'].rows) = 1
          /\ pages'[root'].rows[1].left = root
          /\ pages'[root'].rows[1].right \in DOMAIN pages' \ (DOMAIN pages \cup {root'})
          /\ pages'[pages'[root'].rows[1].right].kind = "Leaf"
          /\ pages'[pages'[root'].rows[1].right].parent = root'
          /\ pages'[root].kind = "Leaf"
          /\ pages'[root].parent = root'
          /\ TreePages' = {root, root', pages'[root'].rows[1].right}]_vars

\* the tree right after the split of the single root leaf: three pages
C26_Witness ==
    /\ last = [op |-> "insert", id |-> 4, err |-> "Ok"]
    /\ DOMAIN stored = {1, 2, 3, 4}
    /\ root = 2
    /\ TreePages = {1, 2, 3}
    /\ Len(pages[2].rows) = 1
    /\ pages[2].rows[1].left = 1
    /\ pages[2].rows[1].right = 3
    /\ pages[1].parent = 2
    /\ pages[3].parent = 2

\* BTreeStorage::delete returned Ok
DeleteStep == last'.op = "delete" /\ last'.err = "Ok"

\* the leaves of the tree, other than the root, whose only row is `id`
LastRowLeaves(id) ==
    {leaf \in TreePages \ {root} :
        pages[leaf].kind = "Leaf" /\ Ids(pages[leaf].rows) = <<id>>}

RECURSIVE Height(_, _)
\* the number of levels below and including page id, along the first child
Height(id, fuel) ==
    IF fuel = 0 \/ id \notin DOMAIN pages THEN 0
    ELSE IF pages[id].kind # "Internal" \/ pages[id].rows = <<>> THEN 1
    ELSE 1 + Height(pages[id].rows[1].left, fuel - 1)

TreeHeight == Height(root, MaxPages)

\* C27: a delete that takes the last row of a leaf other than the root
\* merges that leaf away (it is no longer an empty page of the tree); when
\* the merge takes the last separator of the root, the page that received
\* the rows becomes the root and the tree is one level lower; and when
\* every row has been deleted the tree is one empty root leaf and select()
\* returns nothing.
C27_DeleteMerges ==
    [][DeleteStep =>
          /\ \A leaf \in LastRowLeaves(last'.id) :
                leaf \notin TreePages' \/ leaf = root' \/ pages'[leaf].rows # <<>>
          /\ (pages[root].kind = "Internal" /\ pages'[root].rows = <<>>) =>
                /\ root' \in Children(root)
                /\ pages'[root'].parent = root'
                /\ TreeHeight' = TreeHeight - 1
          /\ stored' = << >> =>
                /\ TreePages' = {root'}
                /\ pages'[root'].kind = "Leaf"
                /\ pages'[root'].rows = <<>>
                /\ Select'.out = <<>>]_vars

\* the last row of a three-level tree deleted: the root is an empty leaf
C27_Witness ==
    /\ last.op = "delete"
    /\ last.err = "Ok"
    /\ stored = << >>
    /\ npages > 4
    /\ TreePages = {root}
    /\ pages[root].kind = "Leaf"
    /\ pages[root].rows = <<>>
    /\ Select.out = <<>>

\* the leaf at which the descent for `id` ends in the tree as it is
LeafFor(id) == Descend(Storage, root, id, MaxPages)

\* an insert of a new id that succeeds although its leaf has no room: the
\* leaf is split
LeafSplitStep ==
    /\ last'.op = "insert"
    /\ last'.err = "Ok"
    /\ LeafFor(last'.id).err = "Ok"
    /\ LeafFor(last'.id).cur \in DOMAIN pages
    /\ CellTaskFull(pages[LeafFor(last'.id).cur], LeafRow(last'.id, 0))
    /\ last'.id \notin Range(Ids(pages[LeafFor(last'.id).cur].rows))

\* the split of leaf T at row m with the new sibling R: the separator is the
\* id of the first row that moves, it stands in the parent of T with T to
\* its left and R to its right, T keeps the smaller ids and R takes the
\* others, the new id among them
SplitsAt(T, R, m, id) ==
    /\ pages'[R].kind = "Leaf"
    /\ Sorted(Ids(pages'[T].rows))
    /\ Sorted(Ids(pages'[R].rows))
    /\ Range(Ids(pages'[T].rows)) =
          {k \in Range(Ids(pages[T].rows)) \cup {id} : k < pages[T].rows[m + 1].id}
    /\ Range(Ids(pages'[R].rows)) =
          {k \in Range(Ids(pages[T].rows)) \cup {id} : k >= pages[T].rows[m + 1].id}
    /\ pages'[T].rows # <<>>
    /\ pages'[R].rows # <<>>
    /\ pages'[T].parent \in DOMAIN pages'
    /\ \E i \in 1..Len(pages'[pages'[T].parent].rows) :
          pages'[pages'[T].parent].rows[i] =
              InternalRow(pages[T].rows[m + 1].id, T, R)

\* C32: the split of an overfull leaf T with rows r keeps r[..m] in T and
\* moves r[m..] to a new sibling R, with m = |r| / 2; the separator (id of
\* the first row of R, left T, right R) is promoted to the parent; with the
\* new row placed by its id, every id of T is below the separator, every id
\* of R is at or above it, and T and R hold the rows of r and the new row.
C32_SplitAtMiddle ==
    [][LeafSplitStep =>
          \E R \in DOMAIN pages' \ DOMAIN pages :
              SplitsAt(LeafFor(last'.id).cur, R,
                       Len(pages[LeafFor(last'.id).cur].rows) \div 2, last'.id)]_vars

\* a full leaf under an internal root of rows 1, 2, 3 was split for id 4: rows 1, 2 stay, 3 moves
C32_Witness ==
    /\ last = [op |-> "insert", id |-> 4, err |-> "Ok"]
    /\ pages[root].kind = "Internal"
    /\ Len(pages[root].rows) = 1
    /\ Ids(pages[pages[root].rows[1].left].rows) = <<1, 2>>
    /\ Ids(pages[pages[root].rows[1].right].rows) = <<3, 4>>


\* the breadcrumb on top of the stack when the descent for `id` has reached
\* its leaf: the parent of the leaf and the pointer that was followed
LeafCrumb(id) == Pop(LeafFor(id).s)

\* the sibling that delete looks at: the other side of that pointer
SiblingOf(id) ==
    IF pages[LeafCrumb(id).crumb[1]].rows[LeafCrumb(id).crumb[2] + 1].right = LeafFor(id).cur
    THEN pages[LeafCrumb(id).crumb[1]].rows[LeafCrumb(id).crumb[2] + 1].left
    ELSE pages[LeafCrumb(id).crumb[1]].rows[LeafCrumb(id).crumb[2] + 1].right

\* a delete that succeeds in a leaf other than the root, whose parent and
\* sibling are pages of the tree
LeafDeleteStep ==
    /\ last'.op = "delete"
    /\ last'.err = "Ok"
    /\ LeafFor(last'.id).err = "Ok"
    /\ LeafFor(last'.id).cur # root
    /\ LeafCrumb(last'.id).some
    /\ LeafCrumb(last'.id).crumb[1] \in DOMAIN pages
    /\ LeafCrumb(last'.id).crumb[2] < Len(pages[LeafCrumb(last'.id).crumb[1]].rows)
    /\ SiblingOf(last'.id) \in DOMAIN pages

\* what the leaf holds after the delete and what its sibling holds, together
CombinedSize(id) ==
    (pages[LeafFor(id).cur].cells - RowSize(LeafRow(id, 0))) + pages[SiblingOf(id)].cells

\* C33: after a delete from a leaf other than the root, the leaf is merged
\* with its sibling (their separator leaves the parent) if and only if what
\* the two pages hold together fits the body of one page (CELLS_PER_LEAF
\* rows); when it does not fit, nothing is merged and the sibling and the
\* parent stay as they were.
C33_MergeIffFits ==
    [][LeafDeleteStep =>
          /\ CombinedSize(last'.id) <= CELLS_PER_LEAF =>
                pages'[LeafCrumb(last'.id).crumb[1]] # pages[LeafCrumb(last'.id).crumb[1]]
          /\ CombinedSize(last'.id) > CELLS_PER_LEAF =>
                /\ pages'[SiblingOf(last'.id)] = pages[SiblingOf(last'.id)]
                /\ pages'[LeafCrumb(last'.id).crumb[1]] =
                       pages[LeafCrumb(last'.id).crumb[1]]]_vars

\* a delete left one row in a leaf next to a sibling of two: three rows
\* together, one page would hold them, and both leaves are still there
C33_Witness ==
    /\ last = [op |-> "delete", id |-> 2, err |-> "Ok"]
    /\ pages[root].kind = "Internal"
    /\ Len(pages[root].rows) = 1
    /\ Ids(pages[pages[root].rows[1].left].rows) = <<1>>
    /\ Ids(pages[pages[root].rows[1].right].rows) = <<3, 4>>


\* the parent of the leaf of `id` and the separator between the leaf and its
\* sibling, as delete finds them
ParentOf(id) == LeafCrumb(id).crumb[1]
SeparatorOf(id) == pages[ParentOf(id)].rows[LeafCrumb(id).crumb[2] + 1]

\* merge: the page on the left of the separator receives the rows
SuccessorOf(id) == SeparatorOf(id).left
AncestorOf(id) == SeparatorOf(id).right

\* a delete that succeeds and merges its leaf with the sibling
LeafMergeStep ==
    /\ LeafDeleteStep
    /\ pages[ParentOf(last'.id)] # pages'[ParentOf(last'.id)]

\* the ids of both pages before the delete, without the deleted one
MergedIds(id) ==
    (Range(Ids(pages[SuccessorOf(id)].rows)) \cup Range(Ids(pages[AncestorOf(id)].rows))) \ {id}

\* C34: a merge moves all rows of the higher-id page (the ancestor) into the
\* lower-id page (the successor): afterwards the successor holds the rows of
\* both pages in ascending order of id, the ancestor holds no row, the
\* separator that stood between the two pages is gone from the parent, and
\* no separator of the parent points at the ancestor any more.
C34_MergeMovesRows ==
    [][LeafMergeStep =>
          /\ SuccessorOf(last'.id) < AncestorOf(last'.id)
          /\ Sorted(Ids(pages'[SuccessorOf(last'.id)].rows))
          /\ Range(Ids(pages'[SuccessorOf(last'.id)].rows)) = MergedIds(last'.id)
          /\ Len(pages'[SuccessorOf(last'.id)].rows) = Cardinality(MergedIds(last'.id))
          /\ pages'[AncestorOf(last'.id)].rows = <<>>
          /\ \A i \in 1..Len(pages'[ParentOf(last'.id)].rows) :
                /\ pages'[ParentOf(last'.id)].rows[i].id # SeparatorOf(last'.id).id
                /\ pages'[ParentOf(last'.id)].rows[i].left # AncestorOf(last'.id)
                /\ pages'[ParentOf(last'.id)].rows[i].right # AncestorOf(last'.id)]_vars

\* leaves 1, 4, 3 stood under root 2; a delete merged leaf 4 into leaf 1,
\* and the separator that is left has leaf 1 on its left
C34_Witness ==
    /\ last.op = "delete"
    /\ last.err = "Ok"
    /\ root = 2
    /\ npages = 5
    /\ Len(pages[2].rows) = 1
    /\ pages[2].rows[1].left = 1
    /\ pages[2].rows[1].right = 3
    /\ pages[4].rows = <<>>
    /\ Len(pages[1].rows) = 2


\* no page of the tree names page `id` as a child or as its parent
Unreferenced(id) ==
    \A p \in TreePages \ {id} : pages[p].parent # id /\ id \notin Children(p)

\* C35: after a merge the emptied ancestor page is freed: its id is on the
\* free list of the pager, from which the next allocation takes it, and no
\* page of the tree names it as a child or as its parent.
C35_AncestorFreed ==
    [][LeafMergeStep =>
          /\ AncestorOf(last'.id) \in Range(metadata'.free_pages)
          /\ \A a \in {AncestorOf(last'.id)} : Unreferenced(a)']_vars

\* leaf 3 was merged into leaf 1, which is the root now; the file still has
\* its four page slots and a later split takes a fifth
C35_Witness ==
    /\ last.op = "delete"
    /\ last.err = "Ok"
    /\ root = 1
    /\ npages = 4
    /\ pages[3].kind = "Leaf"
    /\ pages[3].rows = <<>>
    /\ Unreferenced(3)
    /\ metadata.free_pages = <<>>


\* the descent for key k (below the separator to the left, at or above it to
\* the right) ends at a leaf that holds k
Located(k) ==
    /\ LeafFor(k).err = "Ok"
    /\ LeafFor(k).cur \in DOMAIN pages
    /\ pages[LeafFor(k).cur].kind = "Leaf"
    /\ k \in Range(Ids(pages[LeafFor(k).cur].rows))

\* C36: in every reachable tree the descent from the root for a stored key
\* ends at the leaf that holds the key (an insert has put it where the
\* descent looks for it), and so an update or a delete of a stored key never
\* answers Missing.
C36_LocateFindsLeaf ==
    /\ \A k \in DOMAIN stored : Located(k)
    /\ (last.op \in {"update", "delete"} /\ last.err = "Missing") =>
          last.id \notin DOMAIN stored

\* six keys in a tree of three levels, every one found by the descent
C36_Witness ==
    /\ DOMAIN stored = Keys
    /\ TreeHeight = 3
    /\ \A k \in Keys : Located(k)
    /\ hist.errors = 0

\* the breadcrumbs that the descent for `id` pushes, from the root to the
\* leaf: search_internal on a stack that was empty
DescentCrumbs(id) == Descend(ClearCrumbs(Storage), root, id, MaxPages).s

\* an insert, update or delete is called
OperationStep == last'.op \in {"insert", "update", "delete"}

\* C38: when an operation starts no breadcrumb of an earlier insert, update
\* or delete is on the stack, and so when an insert that splits or a delete
\* that merges walks back up the tree the stack holds exactly the (parent,
\* pointer index) pairs of the descent of that operation.
C38_CrumbsOfCurrentDescent ==
    [][/\ OperationStep => (breadcrumbs = <<>> /\ ~trunc)
       /\ (LeafSplitStep \/ LeafMergeStep) =>
             /\ LeafFor(last'.id).s.crumbs = DescentCrumbs(last'.id).crumbs
             /\ LeafFor(last'.id).s.trunc = DescentCrumbs(last'.id).trunc]_vars

\* the second insert below root 2 has ended: the breadcrumb of the insert
\* before it is still on the stack, under its own
C38_Witness ==
    /\ last.op = "insert"
    /\ last.err = "Ok"
    /\ root = 2
    /\ pages[2].kind = "Internal"
    /\ breadcrumbs = <<<<2, 0>>, <<2, 0>>>>
    /\ ~trunc


(***************************************************************************)
(* Properties of the log file (SpecLog).                                   *)
(***************************************************************************)
RECURSIVE LogBytes(_)
\* the words of the accepted entries, one after the other
LogBytes(es) ==
    IF es = <<>> THEN <<>>
    ELSE EncodeEntry(Head(es).kind, RowFromBytes(Head(es).payload).row) \o LogBytes(Tail(es))

\* a call of Logger::log for a mutation that has returned
LoggedStep == last'.op \in {"insert", "update", "delete"}

Written == disk # <<>> /\ pages[1].kind # "Unknown" /\ disk[1] = PageToBytes(pages[1])

\* C24: converting a page to its buffer and the buffer back gives the same
\* page: kind, parent, used size and the rows in order with their ids and
\* payloads or pointers, for a page of any number of rows.
C24_PageRoundTrip ==
    Written => PageFromBytes(disk[1]) = [err |-> "Ok", page |-> pages[1]]

\* a page of two rows that was written, read back and is the same
C24_Witness ==
    /\ Written
    /\ last.op = "read"
    /\ last.err = "Ok"
    /\ Len(pages[1].rows) = 2

\* the ids of the rows of the page under study
PageIdsNow == Range(Ids(pages[1].rows))

\* C28: Page::insert of an id that is in the page fails with Duplicate,
\* with or without room left in the page; Full is only the answer for an id
\* that is not in the page; and a failed insert leaves the rows and the used
\* size of the page as they were.
C28_DuplicateBeforeFull ==
    [][last'.op = "insert" =>
          /\ last'.id \in PageIdsNow => last'.err = "Duplicate"
          /\ last'.err = "Full" => last'.id \notin PageIdsNow
          /\ last'.err # "Ok" => pages' = pages]_vars

\* a Full for an id that the full leaf does not hold, the page as before
C28_Witness ==
    /\ last.op = "insert"
    /\ last.err = "Full"
    /\ last.id \notin PageIdsNow
    /\ pages[1].kind = "Leaf"
    /\ Len(pages[1].rows) = CELLS_PER_LEAF
    /\ pages[1].cells = CELLS_PER_LEAF

\* the position (1-based) of a stored id in the rows of the page
RowAt(id) == CHOOSE i \in 1..Len(pages[1].rows) : pages[1].rows[i].id = id

\* C30: Page::delete of an id that is in the page succeeds in every page
\* state, a full page included, removes exactly that row and lowers the
\* used size by the size of that row; it fails with Missing exactly when the
\* id is not in the page, and then the page is unchanged.
C30_DeleteStored ==
    [][(last'.op = "delete" /\ pages[1].kind # "Unknown") =>
          /\ last'.id \in PageIdsNow =>
                /\ last'.err = "Ok"
                /\ Ids(pages'[1].rows) = RemoveAt(Ids(pages[1].rows), RowAt(last'.id) - 1)
                /\ pages'[1].cells = pages[1].cells - RowSize(pages[1].rows[RowAt(last'.id)])
          /\ last'.id \notin PageIdsNow =>
                /\ last'.err = "Missing"
                /\ pages' = pages]_vars

\* the middle row of a leaf of two rows deleted: one row and one cell left
C30_Witness ==
    /\ last = [op |-> "delete", id |-> 1, err |-> "Ok"]
    /\ pages[1].kind = "Leaf"
    /\ Ids(pages[1].rows) = <<2>>
    /\ pages[1].cells = 1


\* C31: Page::update of an id that is in the page replaces that row where it
\* stands and leaves every other row as it was, and the used size changes by
\* the size of the new row less the size of the old one; an update that does
\* not make the row larger succeeds in every page state, a full page
\* included.
C31_UpdateInPlace ==
    [][(last'.op = "update" /\ pages[1].kind # "Unknown" /\ last'.id \in PageIdsNow) =>
          /\ last'.err = "Ok"
          /\ Ids(pages'[1].rows) = Ids(pages[1].rows)
          /\ \A i \in 1..Len(pages[1].rows) :
                i # RowAt(last'.id) => pages'[1].rows[i] = pages[1].rows[i]
          /\ pages'[1].cells = pages[1].cells]_vars

\* the first of two rows of a leaf was updated: both rows and two cells stay
C31_Witness ==
    /\ last = [op |-> "update", id |-> 1, err |-> "Ok"]
    /\ pages[1].kind = "Leaf"
    /\ Ids(pages[1].rows) = <<1, 2>>
    /\ pages[1].cells = 2


(***************************************************************************)
(* Properties of the bytes of a page (SpecBytes).                          *)
(***************************************************************************)
RECURSIVE UsedBytes(_)
UsedBytes(rows) == IF rows = <<>> THEN 0 ELSE SizeOf(Head(rows)) + UsedBytes(Tail(rows))

\* C29: in every reachable page the header size plus the sizes of the rows
\* is at most PAGE_SIZE (4096) bytes, since Page::insert takes a row only
\* while the rows stay within PAGE_SIZE - PAGE_HEADER_SIZE, and so the
\* conversion of a page to its buffer never writes behind the buffer.
C29_PageFitsBuffer ==
    /\ pages[1].kind # "Unknown" =>
          PAGE_HEADER_SIZE + UsedBytes(pages[1].rows) <= PAGE_SIZE
    /\ (last.op = "write" /\ pages[1].kind # "Unknown") => last.err = "Ok"

\* an internal page took 170 rows of 24 bytes, and its conversion panicked
C29_Witness ==
    /\ last = [op |-> "write", id |-> 0, err |-> "Panic"]
    /\ pages[1].kind = "Internal"
    /\ Len(pages[1].rows) = 170
    /\ pages[1].cells = 170 * INTERNAL_ROW_SIZE

(***************************************************************************)
(* Properties of the thread pool (SpecPool, FairPool)                      *)
(***************************************************************************)
\* ThreadPool::drop has dropped the sender, no job waits in the channel and
\* no worker runs one
PoolDrained ==
    /\ main = "joining"
    /\ jobs = 0
    /\ \A h \in Handlers : InRecvLoop(h)

\* C39: dropping the ThreadPool terminates: once the sender is dropped and
\* the running jobs have finished every worker leaves its receive loop and
\* the main thread gets out of the joins.
C39_DropTerminates ==
    PoolDrained ~> (main # "joining" /\ \A h \in Handlers : ~InRecvLoop(h))

\* the pool is dropped after both connections were closed: both workers go
\* round the loop on the closed channel and the main thread waits in join
C39_Witness ==
    /\ main = "joining"
    /\ jobs = 0
    /\ \A h \in Handlers : pc[h] = "spin"

\* the connection of worker h ends with a transport error
TransportError(h) ==
    /\ pc[h] \in {"read", "done"}
    /\ last' # last
    /\ last'.op = "disconnect"
    /\ last'.id = h

\* C40: a connection that ends with a transport error does not reduce the
\* pool: its worker stays alive and is back in recv, and whatever number of
\* connections have failed a job that waits in the channel has a worker to
\* receive it.
C40_WorkersSurvive ==
    [][/\ \A h \in Handlers : TransportError(h) => (h \in Alive' /\ pc'[h] = "closed")
       /\ jobs' > 0 => Alive' # {}]_vars

\* every connection has ended with a transport error: no worker thread is
\* left and the connection accepted meanwhile waits in the channel
C40_Witness ==
    /\ Alive = {}
    /\ jobs > 0
    /\ main = "listen"
    /\ last.op = "disconnect"


====
